---- MODULE Spec2Model ----
(***************************************************************************)
(* State-machine model of the PhysicsEngine class of SlimeLab (the variant *)
(* with enemies, particle health and game-over detection).                 *)
(*                                                                         *)
(* Units.  Lengths are integers counted in half pixels (L(px) = 2 * px),   *)
(* so that the patrol displacement of one tick, patrolSpeed * dt =         *)
(* 90 * (1/60) = 1.5 px, is a whole number.  Velocities are integers in    *)
(* px/s.  Time is counted in calls of update(), each with dt = TIME_STEP.  *)
(*                                                                         *)
(* Floating point.  The force accumulation and the semi-implicit Euler     *)
(* step of update() compute IEEE doubles from square roots and quotients.  *)
(* Their result is modelled as a choice: every alive particle leaves the   *)
(* integration stage with a position and a velocity drawn from finite      *)
(* lattices (the moves of UpdateOn); dead particles are skipped as in the  *)
(* code.  The move Computed is the exception: it computes the forces and   *)
(* the Euler step as written, on layouts whose distances and quotients are *)
(* whole numbers.  Every guard, flag, counter, event and the order of the  *)
(* stages is translated as written.                                        *)
(***************************************************************************)
EXTENDS Integers, Sequences, FiniteSets, TLC

VARIABLES
    particles,          \* this.particles : sequence of particle records
    enemies,            \* this.enemies   : sequence of enemy records
    isGameOver,         \* this.gameState.isGameOver
    enemyHitCooldowns,  \* this.enemyHitCooldowns : map enemy id -> ticks
    initialParticleCount, \* this.initialParticleCount
    op,                 \* the public method that ran last
    sounds,             \* onSoundEvent calls made by the last method, in order
    stateEvents,        \* onGameStateChange calls made by the last method
    contacts,           \* particle/enemy overlaps handled by the last collision pass
    hits,               \* per enemy id: damageEnemy calls since initEnemies (capped)
    sinceHit,           \* per enemy id: collision passes since its last damage (capped)
    gameOverCalls,      \* onGameStateChange(isGameOver=true) calls since (re)start (capped)
    jumpCooldown,       \* this.jumpCooldown, in ticks still to wait
    jumpWasPressed,     \* this.jumpWasPressed
    bounceSoundCooldown, \* this.bounceSoundCooldown, in ticks still to wait
    sinceJump,          \* update() calls with a keyboard state since the last jump (capped)
    sinceBounce,        \* update() calls since the last one with a bounce event (capped)
    input,              \* mousePos, isDragging, keyboardInput of the last update()
    control,            \* the particles the last method dragged, pushed and jumped
    mainGroup           \* the set the last findMainGroup() call returned

vars == <<particles, enemies, isGameOver, enemyHitCooldowns, initialParticleCount,
          op, sounds, stateEvents, contacts, hits, sinceHit, gameOverCalls,
          jumpCooldown, jumpWasPressed, bounceSoundCooldown, sinceJump,
          sinceBounce, input, control, mainGroup>>

-----------------------------------------------------------------------------
(* Program constants *)

L(px) == 2 * px                     \* pixels to model length units

CANVAS_WIDTH == 800
CANVAS_HEIGHT == 600
ENEMY_SIZE == 40
ENEMY_COUNT == 2
ENEMY_MAX_HEALTH == 50
PARTICLE_MAX_HEALTH == 100
PARTICLE_DAMAGE == 15
INITIAL_HEALTH == 100               \* initSlime: health: 100
PARTICLE_RADIUS == 10               \* initSlime: radius: 10
REABSORPTION_VELOCITY_THRESHOLD == 50
REABSORPTION_DISTANCE_THRESHOLD == 35
PATROL_EPSILON == 5                 \* updateEnemies: dist > 5
LAUNCH_INTENSITY_CEILING == 1200

\* ENEMY_HIT_COOLDOWN = 0.3 s, decremented by TIME_STEP = 1/60 s while > 0.
\* In IEEE doubles 0.3 - 18 * (1/60) = 4.86e-17 > 0, so the value is <= 0
\* only after the 19th decrement: the cooldown is held as that tick count.
ENEMY_HIT_COOLDOWN == 19

\* ENEMY_HIT_COOLDOWN / TIME_STEP = 0.3 / (1/60): the cooldown in ticks
HIT_COOLDOWN_TICKS == 18

CONFIG_PARTICLE_RADIUS == 12        \* config.particleRadius, px
INTERACTION_RADIUS == 50            \* config.interactionRadius, px
MOUSE_INTERACTION_RADIUS == 150     \* config.mouseInteractionRadius, px
GROUND_MARGIN == 8                  \* height - config.particleRadius - 8
jumpImpulse == 350                  \* px/s

\* jumpCooldown = 0.25 s, decremented by dt = 1/60 s while > 0.  In IEEE
\* doubles 0.25 - 15 * (1/60) = 4.86e-17 > 0, so the value is <= 0 only after
\* the 16th decrement: the cooldown is held as that tick count.
JUMP_COOLDOWN_TICKS == 16

\* bounceSoundCooldown = 0.1 s: 0.1 - 6 * (1/60) = 2.8e-17 > 0 in IEEE doubles,
\* so the value is <= 0 only after the 7th decrement.
BOUNCE_COOLDOWN_TICKS == 7

\* DEFAULT_CONFIG, the config update() is called with
GRAVITY == 400                      \* config.gravity
REPULSION_STRENGTH == 800           \* config.repulsionStrength
ATTRACTION_SCALED == 150            \* config.attractionStrength * 100 = 1.5 * 100
DAMPING_NUM == 24                   \* config.damping = 0.96 = 24 / 25
DAMPING_DEN == 25
TICKS_PER_SECOND == 60              \* dt = TIME_STEP = 1 / 60
BOUNCE_SOUND_SPEED == 50            \* maxImpactSpeed > 50, px/s
BOUNCE_INTENSITY_CEILING == 300     \* intensity = min(maxImpactSpeed / 300, 1)

(* Bounds of the model *)
MaxHits == 6                        \* cap of the hits counter
MaxGameOverCalls == 2               \* cap of the gameOverCalls counter
MaxSinceJump == 16                  \* cap of the sinceJump counter
MaxSinceBounce == 7                 \* cap of the sinceBounce counter

-----------------------------------------------------------------------------
(* Helpers *)

Vec(a, b) == [x |-> a, y |-> b]
Abs(n) == IF n < 0 THEN -n ELSE n
Sign(n) == IF n < 0 THEN -1 ELSE IF n > 0 THEN 1 ELSE 0
Min(a, b) == IF a < b THEN a ELSE b
Max(a, b) == IF a > b THEN a ELSE b
Range(s) == {s[i] : i \in DOMAIN s}
DistSq(a, b) == (b.x - a.x) * (b.x - a.x) + (b.y - a.y) * (b.y - a.y)

\* the largest r with r * r <= n (Math.sqrt on the perfect squares of the lattice)
RECURSIVE ISqrtIn(_, _, _)
ISqrtIn(n, lo, hi) ==
    IF lo >= hi THEN lo
    ELSE LET mid == (lo + hi + 1) \div 2
         IN  IF mid * mid <= n THEN ISqrtIn(n, mid, hi) ELSE ISqrtIn(n, lo, mid - 1)
ISqrt(n) == ISqrtIn(n, 0, Min(n, 46340))

\* p.health === undefined || p.health > 0.  initSlime gives every particle a
\* health, and nothing deletes the field, so the undefined case never arises.
Alive(p) == p.health > 0
Dead(p) == p.health <= 0

EnemyIds == 0 .. (ENEMY_COUNT - 1)

-----------------------------------------------------------------------------
(* Input lattices: the values drawn for Math.random(), for the caller's    *)
(* arguments and for the results of the floating-point stages.             *)

Rest == Vec(0, 0)
EdgeVel == Vec(30, 40)              \* speed exactly 50
FastVel == Vec(0, -600)             \* speed 600

PosA == Vec(L(206), L(570))         \* inside the hit-box of enemy 0 on all of its patrol
PosB == Vec(L(386), L(330))         \* in the spawn disc, 300 px from PosA
PosC == Vec(L(386), L(351))         \* 21 px from PosB
PosUp == Vec(L(386), L(230))        \* 100 px straight above PosB
PosD == Vec(L(407), L(358))         \* exactly 35 px from PosB, 22 px from PosC
PosE == Vec(L(412), L(300))         \* 15 px from the right eye, 39 px from PosB

Moves(groups, targets, velocities) ==
    {[who |-> who, to |-> to, vel |-> vel, exact |-> FALSE] :
        who \in groups, to \in targets, vel \in velocities}

\* the move that stands for the forces and the integration computed exactly
Computed == [who |-> {}, to |-> Vec(0, 0), vel |-> Vec(0, 0), exact |-> TRUE]

\* the moves of the combat specification: nobody, one body, both bodies or the
\* whole slime reach the enemy
CombatMoves == Moves({{}, {2}, {2, 3}, {0, 1, 2, 3}}, {PosA}, {FastVel})

\* the moves of the reabsorption specification: one of two bodies comes to
\* rest, or flies on, near the third body or near an eye
ReabMoves == Moves({{2}, {3}}, {PosC, PosD, PosE}, {Rest, EdgeVel, FastVel})
ReabCounts == {5}

\* the moves of the control specification: one body or the whole slime lands
\* on the ground line, or that body returns to the spawn point
PosG == Vec(L(386), L(580))         \* y = height - particleRadius - 8, 250 px below PosB
ControlMoves ==
    Moves({{2}, {0, 1, 2, 3}}, {PosG}, {FastVel})
        \cup Moves({{2}}, {PosB}, {FastVel})
SpawnPositions == {PosB}
SpawnVelocities == {Rest}
SlimeCounts == {4}
LaunchVelocities == {Vec(0, -600)}
ChargeTargets == {PosB, PosUp}
ChargeMagnitudes == {600}           \* velocityMagnitude, in px/s
PatrolOffsets == <<0, 10, 5>>       \* (Math.random() - 0.5) * 200, in px, per waypoint
PatrolSpeeds == {90}                \* ENEMY_SPEED + Math.random() * 40

\* The boundary lattice: targets past each wall, past two corners, on the
\* floor line itself and inside the canvas, away from both enemies.
BelowFloor == Vec(L(400), L(595))
OnFloorLine == Vec(L(400), L(CANVAS_HEIGHT) - L(12))
AboveCeiling == Vec(L(400), L(5))
LeftOfWall == Vec(L(5), L(300))
RightOfWall == Vec(L(797), L(300))
CornerLow == Vec(L(0) - L(3), L(610))
CornerHigh == Vec(L(805), L(0) - L(4))
FallVel == Vec(-100, 200)
BoundsTargets ==
    {BelowFloor, OnFloorLine, AboveCeiling, LeftOfWall, RightOfWall, CornerLow,
     CornerHigh, PosB}
BoundsMoves ==
    Moves({{2}}, BoundsTargets, {EdgeVel, FallVel})
        \cup Moves({{0, 1, 2, 3}}, {CornerLow}, {FallVel})

\* The tick lattice: a target below the floor inside the first enemy, another
\* below the floor 32 px to its right, clear of the enemy, and a fall at 80 px/s.
TickT == Vec(L(210), L(595))
TickX == Vec(L(242), L(595))
DropVel == Vec(0, 80)
TickMoves ==
    Moves({{2}, {0, 1, 2, 3}}, {TickX}, {DropVel})
        \cup Moves({{3}, {0, 1, 2, 3}}, {TickT}, {DropVel})

-----------------------------------------------------------------------------
(* initSlime / initEnemies *)

\* The arguments of update(): an absent mousePos or keyboardInput is the empty
\* sequence, a present one a sequence of one element.
Keys(left, right, jump) == <<[left |-> left, right |-> right, jump |-> jump]>>
NoInput == [mousePos |-> <<>>, isDragging |-> FALSE, keyboardInput |-> <<>>]
\* what the animation loop passes while no key is down
IdleInput == [mousePos |-> <<>>, isDragging |-> FALSE,
              keyboardInput |-> Keys(FALSE, FALSE, FALSE)]
\* the pointer absent, present without dragging (what the animation loop
\* passes) or dragging at the ground point; the keyboard absent or with some
\* keys down
Pointer(pos, dragging, keys) ==
    [mousePos |-> pos, isDragging |-> dragging, keyboardInput |-> keys]
\* dragging at pos with the right and the jump key down
FullInput(pos) == Pointer(<<pos>>, TRUE, Keys(FALSE, TRUE, TRUE))
ControlInputs ==
    {Pointer(<<>>, FALSE, <<>>),
     Pointer(<<PosG>>, TRUE, <<>>),
     Pointer(<<PosG>>, FALSE, Keys(TRUE, FALSE, FALSE)),
     Pointer(<<>>, FALSE, Keys(FALSE, FALSE, TRUE)),
     Pointer(<<PosG>>, TRUE, Keys(FALSE, TRUE, TRUE))}
NoControl == [dragged |-> {}, pushed |-> {}, jumped |-> {}]

SlimeWith(count, spawnPos, spawnVel) ==
    LET centerX == L(CANVAS_WIDTH) \div 2
        centerY == L(CANVAS_HEIGHT) \div 2
    IN  [i \in 1 .. count |->
            [ id        |-> i - 1,
              position  |-> IF i - 1 = 0 THEN Vec(centerX - L(12), centerY - L(15))
                            ELSE IF i - 1 = 1 THEN Vec(centerX + L(12), centerY - L(15))
                            ELSE spawnPos,
              velocity  |-> spawnVel,
              type      |-> IF i - 1 < 2 THEN "eye" ELSE "body",
              isEmitted |-> FALSE,
              health    |-> INITIAL_HEALTH,
              maxHealth |-> INITIAL_HEALTH ] ]

\* the enemies initEnemies(count) makes when its random draws give the
\* waypoint offsets and the patrol speed
EnemiesOn(count, speed, offsets) ==
    [i \in 1 .. count |->
        LET side == (i - 1) % 2
            baseX == IF side = 0 THEN L(CANVAS_WIDTH) \div 4 ELSE (3 * L(CANVAS_WIDTH)) \div 4
            groundY == L(CANVAS_HEIGHT) - L(ENEMY_SIZE) \div 2 - L(4)
            patrolPoints == [j \in 1 .. Len(offsets) |->
                                Vec(baseX + L(offsets[j]), groundY)]
        IN  [ id                 |-> i - 1,
              position           |-> patrolPoints[1],
              size               |-> L(ENEMY_SIZE),
              patrolPoints       |-> patrolPoints,
              currentPatrolIndex |-> 0,
              patrolSpeed        |-> speed,
              health             |-> ENEMY_MAX_HEALTH,
              isDead             |-> FALSE ] ]

EnemiesWith(count, speed) == EnemiesOn(count, speed, PatrolOffsets)

NoCooldowns == [e \in {} |-> 0]
NoHits == [e \in EnemyIds |-> 0]
LongAgo == [e \in EnemyIds |-> ENEMY_HIT_COOLDOWN]

\* Layouts for findMainGroup: S1-S2 are 49 px apart, S2-S3 31.3 px, S1-S3
\* exactly 50 px (30-40-50), S4-S5 40 px, and S4, S5 are 300 px from the rest.
S1 == Vec(L(100), L(100))
S2 == Vec(L(100), L(149))
S3 == Vec(L(130), L(140))
S4 == Vec(L(400), L(100))
S5 == Vec(L(400), L(140))
SmallSites == {S1, S2, S3, S4, S5}
ClusterSites == {S1, S4}
SmallCounts == 0 .. 4
ClusterCounts == {10}

\* a slime of count particles as initSlime numbers and types them, particle i
\* at place[i] with health[i]
SlimeAt(count, place, health) ==
    [i \in 1 .. count |->
        [ id        |-> i - 1,
          position  |-> place[i],
          velocity  |-> Rest,
          type      |-> IF i - 1 < 2 THEN "eye" ELSE "body",
          isEmitted |-> FALSE,
          health    |-> health[i],
          maxHealth |-> INITIAL_HEALTH ] ]

InitRest ==
    /\ isGameOver = FALSE
    /\ enemyHitCooldowns = NoCooldowns
    /\ op = "constructor"
    /\ sounds = <<>>
    /\ stateEvents = <<>>
    /\ contacts = <<>>
    /\ hits = NoHits
    /\ sinceHit = LongAgo
    /\ gameOverCalls = 0
    /\ jumpCooldown = 0
    /\ jumpWasPressed = FALSE
    /\ bounceSoundCooldown = 0
    /\ sinceJump = MaxSinceJump
    /\ sinceBounce = MaxSinceBounce
    /\ input = NoInput
    /\ control = NoControl
    /\ mainGroup = {}

InitCommon ==
    /\ \E speed \in PatrolSpeeds : enemies = EnemiesWith(ENEMY_COUNT, speed)
    /\ InitRest

InitWith(counts) ==
    /\ initialParticleCount \in counts
    /\ \E sp \in SpawnPositions, sv \in SpawnVelocities :
           particles = SlimeWith(initialParticleCount, sp, sv)
    /\ InitCommon

\* the engine with its particles anywhere on the layout sites
InitGroup ==
    /\ \/ \E n \in SmallCounts :
             \E place \in [1 .. n -> SmallSites], health \in [1 .. n -> {0, INITIAL_HEALTH}] :
                 particles = SlimeAt(n, place, health)
       \/ \E n \in ClusterCounts :
             \E place \in [1 .. n -> ClusterSites] :
                 particles = SlimeAt(n, place, [i \in 1 .. n |-> INITIAL_HEALTH])
    /\ initialParticleCount = Len(particles)
    /\ InitCommon

Init == InitWith(SlimeCounts)

-----------------------------------------------------------------------------
(* The engine as one record, threaded through the stages of a method.  The  *)
(* fields are the variables of the same names.                              *)

Engine ==
    [ particles |-> particles, enemies |-> enemies, isGameOver |-> isGameOver,
      enemyHitCooldowns |-> enemyHitCooldowns, sounds |-> <<>>, stateEvents |-> <<>>,
      contacts |-> <<>>, hits |-> hits, sinceHit |-> sinceHit,
      gameOverCalls |-> gameOverCalls,
      jumpCooldown |-> jumpCooldown, jumpWasPressed |-> jumpWasPressed,
      bounceSoundCooldown |-> bounceSoundCooldown, sinceJump |-> sinceJump,
      sinceBounce |-> sinceBounce,
      input |-> input, control |-> NoControl ]

Emit(eng, event) == [eng EXCEPT !.sounds = Append(@, event)]
Notify(eng, event) == [eng EXCEPT !.stateEvents = Append(@, event)]

-----------------------------------------------------------------------------
(* launchParticle / launchChargedParticle *)

\* variant of Launchable: the filter does not exclude the eyes
Launchable_WithEyes(ps) == {i \in DOMAIN ps : ~ps[i].isEmitted}

\* this.particles.filter(p => p.type !== 'eye' && !p.isEmitted), as indices
Launchable(ps) == {i \in DOMAIN ps : ps[i].type # "eye" /\ ~ps[i].isEmitted}

\* variant of BottomMost: bodyParticles[0], whatever its height
BottomMost_First(ps, cands) == CHOOSE i \in cands : \A j \in cands : i <= j

\* the first index of cands with the greatest position.y (p.position.y > maxY)
BottomMost(ps, cands) ==
    CHOOSE i \in cands :
        \A j \in cands : \/ ps[j].position.y < ps[i].position.y
                         \/ (ps[j].position.y = ps[i].position.y /\ i <= j)

launchParticle(eng, i, vel) ==
    [eng EXCEPT !.particles[i].isEmitted = TRUE,
                !.particles[i].velocity = vel]

\* variant of launchChargedParticle: the launch sound is triggered before the
\* eligibility test
launchChargedParticle_Loud(eng, targetPosition, velocityMagnitude) ==
    Emit(eng, [type |-> "launch",
               intensity |-> Min(velocityMagnitude, LAUNCH_INTENSITY_CEILING)])

launchChargedParticle(eng, targetPosition, velocityMagnitude) ==
    LET ps == eng.particles
        sel == BottomMost(ps, Launchable(ps))
        dx == targetPosition.x - ps[sel].position.x
        dy == targetPosition.y - ps[sel].position.y
        distSq == dx * dx + dy * dy
        distance == ISqrt(distSq)
        marked == [eng EXCEPT !.particles[sel].isEmitted = TRUE,
                              !.particles[sel].health = PARTICLE_MAX_HEALTH,
                              !.particles[sel].maxHealth = PARTICLE_MAX_HEALTH]
    IN  IF Launchable(ps) = {} THEN eng
        ELSE IF distSq < L(1) * L(1)
        THEN [marked EXCEPT !.particles[sel].velocity = Vec(0, -velocityMagnitude)]
        ELSE Emit([marked EXCEPT !.particles[sel].velocity =
                        Vec((dx * velocityMagnitude) \div distance,
                            (dy * velocityMagnitude) \div distance)],
                  [type |-> "launch",
                   intensity |-> Min(velocityMagnitude, LAUNCH_INTENSITY_CEILING)])

-----------------------------------------------------------------------------
(* update(): stages *)

\* variant of areParticlesConnected: distance <= connectionDistance
areParticlesConnected_Inclusive(p1, p2, connectionDistance) ==
    DistSq(p1.position, p2.position) <= L(connectionDistance) * L(connectionDistance)

\* areParticlesConnected(p1, p2, connectionDistance)
areParticlesConnected(p1, p2, connectionDistance) ==
    DistSq(p1.position, p2.position) < L(connectionDistance) * L(connectionDistance)

\* aliveIndices
AliveIndices(ps) == {i \in DOMAIN ps : ps[i].health > 0}

\* adjacency.get(i)
Adjacent(ps, r, i) ==
    {j \in AliveIndices(ps) : j # i /\ areParticlesConnected(ps[i], ps[j], r)}

RECURSIVE Ascending(_)
Ascending(S) ==
    IF S = {} THEN <<>>
    ELSE LET m == CHOOSE x \in S : \A y \in S : x <= y
         IN  <<m>> \o Ascending(S \ {m})

\* the while (queue.length > 0) loop of one BFS; bfs.group is currentGroup
RECURSIVE BfsLoop(_, _, _, _)
BfsLoop(ps, r, queue, bfs) ==
    IF queue = <<>> THEN bfs
    ELSE LET current == Head(queue)
         IN  IF current \in bfs.visited
             THEN BfsLoop(ps, r, Tail(queue), bfs)
             ELSE LET visited == bfs.visited \cup {current}
                      fresh == Adjacent(ps, r, current) \ visited
                  IN  BfsLoop(ps, r, Tail(queue) \o Ascending(fresh),
                              [visited |-> visited, group |-> bfs.group \cup {current}])

\* one iteration of: for (const i of aliveIndices)
ScanOne(ps, r, i, scan) ==
    IF i \in scan.visited THEN scan
    ELSE LET bfs == BfsLoop(ps, r, <<i>>, [visited |-> scan.visited, group |-> {}])
         IN  IF Cardinality(bfs.group) > scan.maxGroupSize
             THEN [visited |-> bfs.visited, mainGroup |-> bfs.group,
                   maxGroupSize |-> Cardinality(bfs.group)]
             ELSE [scan EXCEPT !.visited = bfs.visited]

RECURSIVE ScanFrom(_, _, _, _)
ScanFrom(ps, r, todo, scan) ==
    IF todo = <<>> THEN scan
    ELSE ScanFrom(ps, r, Tail(todo), ScanOne(ps, r, Head(todo), scan))

findMainGroup(ps, interactionRadius) ==
    ScanFrom(ps, interactionRadius, Ascending(AliveIndices(ps)),
             [visited |-> {}, mainGroup |-> {}, maxGroupSize |-> 0]).mainGroup

\* variant of Dragged: the pointer pulls every particle in its radius
Dragged_Anyone(ps, group, in) ==
    IF in.mousePos # <<>> /\ in.isDragging
    THEN {i \in DOMAIN ps :
            DistSq(in.mousePos[1], ps[i].position)
                < L(MOUSE_INTERACTION_RADIUS) * L(MOUSE_INTERACTION_RADIUS)}
    ELSE {}

\* Stage 3: if (mousePos && isDragging), the main-group particles less than
\* mouseInteractionRadius from the pointer get the pull and the 0.8 damping
Dragged(ps, group, in) ==
    IF in.mousePos # <<>> /\ in.isDragging
    THEN {i \in group :
            DistSq(in.mousePos[1], ps[i].position)
                < L(MOUSE_INTERACTION_RADIUS) * L(MOUSE_INTERACTION_RADIUS)}
    ELSE {}

\* Stage 3.5: the particles the keyboard controls
Controlled(ps, group) == {i \in group : ~ps[i].isEmitted}

\* variant of OnGroundLine: position.y > this.height - config.particleRadius - 8
OnGroundLine_Strict(p) ==
    p.position.y > L(CANVAS_HEIGHT) - L(CONFIG_PARTICLE_RADIUS) - L(GROUND_MARGIN)

\* position.y >= this.height - config.particleRadius - 8
OnGroundLine(p) ==
    p.position.y >= L(CANVAS_HEIGHT) - L(CONFIG_PARTICLE_RADIUS) - L(GROUND_MARGIN)

onGround(ps, group) == \E i \in Controlled(ps, group) : OnGroundLine(ps[i])

\* variant of JumpFires: jumpTriggered && onGround
JumpFires_NoCooldown(eng, group, keys) ==
    /\ keys.jump /\ ~eng.jumpWasPressed
    /\ onGround(eng.particles, group)

\* jumpTriggered && onGround && this.jumpCooldown <= 0
JumpFires(eng, group, keys) ==
    /\ keys.jump /\ ~eng.jumpWasPressed
    /\ onGround(eng.particles, group)
    /\ eng.jumpCooldown <= 0

\* if (keyboardInput) { ... }: locomotion force, jump, jumpWasPressed, cooldown
Keyboard(eng, group, keys) ==
    LET ps == eng.particles
        pushed == IF keys.left \/ keys.right THEN Controlled(ps, group) ELSE {}
        fires == JumpFires(eng, group, keys)
        jumped == IF fires
                  THEN [eng EXCEPT !.particles =
                            [i \in DOMAIN ps |->
                                IF i \in Controlled(ps, group)
                                THEN [ps[i] EXCEPT !.velocity.y = -jumpImpulse]
                                ELSE ps[i]],
                        !.jumpCooldown = JUMP_COOLDOWN_TICKS,
                        !.sounds = Append(@, [type |-> "jump"]),
                        !.control.jumped = Controlled(ps, group),
                        !.sinceJump = 0]
                  ELSE [eng EXCEPT !.sinceJump = Min(@ + 1, MaxSinceJump)]
    IN  [jumped EXCEPT !.control.pushed = pushed,
                       !.jumpWasPressed = keys.jump,
                       !.jumpCooldown = IF @ > 0 THEN @ - 1 ELSE @]

\* variant of Control: the jump cooldown runs down without a keyboard state too
Control_AlwaysCools(eng, in) ==
    LET group == findMainGroup(eng.particles, INTERACTION_RADIUS)
        dragged == [eng EXCEPT !.input = in,
                               !.control.dragged = Dragged(eng.particles, group, in)]
    IN  IF in.keyboardInput # <<>>
        THEN Keyboard(dragged, group, in.keyboardInput[1])
        ELSE [dragged EXCEPT !.jumpCooldown = IF @ > 0 THEN @ - 1 ELSE @]

\* Stages 3 and 3.5 of update(), with the main group found at its start
Control(eng, in) ==
    LET group == findMainGroup(eng.particles, INTERACTION_RADIUS)
        dragged == [eng EXCEPT !.input = in,
                               !.control.dragged = Dragged(eng.particles, group, in)]
    IN  IF in.keyboardInput # <<>>
        THEN Keyboard(dragged, group, in.keyboardInput[1])
        ELSE dragged

\* Stages 1, 2 and 4 computed exactly.  Forces are integers; the quotients
\* below are exact on the layouts of InitForces (every interacting pair is
\* aligned with an axis and its force is a whole number).

\* forceMagnitude of the pair (pA, pB) at distance dist
ForceMagnitude(pA, pB, dist) ==
    LET diameter == (L(CONFIG_PARTICLE_RADIUS) * 3) \div 2
        bothEyes == pA.type = "eye" /\ pB.type = "eye"
        repulsion == IF bothEyes THEN (REPULSION_STRENGTH * 5) \div 2
                     ELSE REPULSION_STRENGTH
        pushed == IF dist < diameter
                  THEN 0 - (repulsion * (diameter - dist)) \div diameter
                  ELSE 0
    IN  IF dist > diameter
        THEN pushed + (ATTRACTION_SCALED * (L(INTERACTION_RADIUS) - dist))
                          \div L(INTERACTION_RADIUS)
        ELSE pushed

\* whether the pair loop reaches its force computation for (pA, pB)
Interacts(pA, pB) ==
    /\ Alive(pA) /\ Alive(pB)
    /\ ~(DistSq(pA.position, pB.position) > L(INTERACTION_RADIUS) * L(INTERACTION_RADIUS))
    /\ DistSq(pA.position, pB.position) # 0

\* (fx, fy) of the pair (pA, pB)
PairForce(pA, pB) ==
    LET dx == pB.position.x - pA.position.x
        dy == pB.position.y - pA.position.y
        dist == ISqrt(dx * dx + dy * dy)
        forceMagnitude == ForceMagnitude(pA, pB, dist)
    IN  Vec((dx * forceMagnitude) \div dist, (dy * forceMagnitude) \div dist)

\* variant of ApplyPair: pB receives the same force as pA
ApplyPair_SameSign(ps, force, i, j) ==
    IF Interacts(ps[i], ps[j])
    THEN LET f == PairForce(ps[i], ps[j])
         IN  [force EXCEPT ![i] = Vec(@.x + f.x, @.y + f.y),
                           ![j] = Vec(@.x + f.x, @.y + f.y)]
    ELSE force

\* pA.force += f; pB.force -= f
ApplyPair(ps, force, i, j) ==
    IF Interacts(ps[i], ps[j])
    THEN LET f == PairForce(ps[i], ps[j])
         IN  [force EXCEPT ![i] = Vec(@.x + f.x, @.y + f.y),
                           ![j] = Vec(@.x - f.x, @.y - f.y)]
    ELSE force

\* the double loop: for i, for j = i + 1 .. N - 1
RECURSIVE PairLoop(_, _, _, _)
PairLoop(ps, force, i, j) ==
    IF i > Len(ps) THEN force
    ELSE IF j > Len(ps) THEN PairLoop(ps, force, i + 1, i + 2)
    ELSE PairLoop(ps, ApplyPair(ps, force, i, j), i, j + 1)

\* Stages 1 and 2: the force of every alive particle (mass = 1); the entry of
\* a dead particle is not touched and stands as the zero vector
Accumulate(ps) ==
    PairLoop(ps, [i \in DOMAIN ps |->
                     IF Alive(ps[i]) THEN Vec(0, GRAVITY) ELSE Vec(0, 0)], 1, 2)

\* variant of Accelerated: no damping
Accelerated_Undamped(v, f) == (TICKS_PER_SECOND * v + f) \div TICKS_PER_SECOND

\* v += a * dt; v *= damping, for one component
Accelerated(v, f) ==
    ((TICKS_PER_SECOND * v + f) * DAMPING_NUM) \div (DAMPING_DEN * TICKS_PER_SECOND)

\* position += v * dt, rounded to the nearest point of the half-pixel lattice
Displaced(x, v) == x + (2 * v * L(1) + TICKS_PER_SECOND) \div (2 * TICKS_PER_SECOND)

\* Stage 4 for one particle with force f
Stepped(p, f) ==
    LET v == Vec(Accelerated(p.velocity.x, f.x), Accelerated(p.velocity.y, f.y))
    IN  [position |-> Vec(Displaced(p.position.x, v.x), Displaced(p.position.y, v.y)),
         velocity |-> v]

ExactKin(ps) ==
    LET force == Accumulate(ps)
    IN  [i \in DOMAIN ps |-> Stepped(ps[i], force[i])]

\* The force lattice: sites 9 px and 30 px below and 30 px beside a first one,
\* and one far away.
ForceA == Vec(L(400), L(300))
ForceD == Vec(L(400), L(309))
ForceB == Vec(L(400), L(330))
ForceC == Vec(L(430), L(300))
ForceZ == Vec(L(600), L(300))
ForceSites == {ForceA, ForceD, ForceB, ForceC, ForceZ}
ForceCounts == 2 .. 4

\* the pair's force is a whole number along an axis
WholePair(pA, pB) ==
    LET dx == pB.position.x - pA.position.x
        dy == pB.position.y - pA.position.y
        dist == ISqrt(dx * dx + dy * dy)
        diameter == (L(CONFIG_PARTICLE_RADIUS) * 3) \div 2
    IN  /\ dx = 0 \/ dy = 0
        /\ dist < diameter => (REPULSION_STRENGTH * (diameter - dist)) % (2 * diameter) = 0
        /\ dist > diameter =>
               (ATTRACTION_SCALED * (L(INTERACTION_RADIUS) - dist)) % L(INTERACTION_RADIUS) = 0
        /\ ForceMagnitude(pA, pB, dist) % 5 = 0

WholeLayout(ps) ==
    \A i, j \in DOMAIN ps : (i < j /\ Interacts(ps[i], ps[j])) => WholePair(ps[i], ps[j])

\* a velocity component initSlime can draw, (Math.random() - 0.5) * 50, from
\* which one tick under force f ends on a whole number of px/s
InitialSpeed(f) ==
    CHOOSE v \in 0 .. 24 :
        ((TICKS_PER_SECOND * v + f) * DAMPING_NUM) % (DAMPING_DEN * TICKS_PER_SECOND) = 0

\* What the stages 1 to 4 leave particle p with under a move: the particles
\* named by move.who arrive at move.to, the emitted ones among them with
\* velocity move.vel and the others at rest; every other particle keeps its
\* position and velocity.
KinOf(p, move) ==
    IF p.id \in move.who
    THEN [position |-> move.to, velocity |-> IF p.isEmitted THEN move.vel ELSE Rest]
    ELSE [position |-> p.position, velocity |-> p.velocity]

Kin(ps, move) ==
    IF move.exact THEN ExactKin(ps) ELSE [i \in DOMAIN ps |-> KinOf(ps[i], move)]

\* Stages 1 to 4 (reset forces, pairwise forces, pointer and keyboard input,
\* integration): every alive particle gets the position and velocity kin[i];
\* dead particles are skipped.
Integrate(eng, kin) ==
    [eng EXCEPT !.particles =
        [i \in DOMAIN @ |->
            IF Dead(@[i]) THEN @[i]
            ELSE [@[i] EXCEPT !.position = kin[i].position,
                              !.velocity = kin[i].velocity]]]

SpeedSq(p) == p.velocity.x * p.velocity.x + p.velocity.y * p.velocity.y

\* variant of NearBody: bodyParticles is not filtered by health
NearBody_CountsDead(ps, i) ==
    \E j \in DOMAIN ps :
        /\ ps[j].type # "eye"
        /\ ps[j].id # ps[i].id
        /\ ~ps[j].isEmitted
        /\ DistSq(ps[i].position, ps[j].position)
              < L(REABSORPTION_DISTANCE_THRESHOLD) * L(REABSORPTION_DISTANCE_THRESHOLD)

\* the inner loop of checkReabsorption over bodyParticles
NearBody(ps, i) ==
    \E j \in DOMAIN ps :
        /\ ps[j].type # "eye" /\ Alive(ps[j])
        /\ ps[j].id # ps[i].id
        /\ ~ps[j].isEmitted
        /\ DistSq(ps[i].position, ps[j].position)
              < L(REABSORPTION_DISTANCE_THRESHOLD) * L(REABSORPTION_DISTANCE_THRESHOLD)

\* variant of SlowEnough: velocityMag >= REABSORPTION_VELOCITY_THRESHOLD: continue
SlowEnough_Strict(p) ==
    SpeedSq(p) < REABSORPTION_VELOCITY_THRESHOLD * REABSORPTION_VELOCITY_THRESHOLD

\* velocityMag > REABSORPTION_VELOCITY_THRESHOLD: continue
SlowEnough(p) ==
    ~(SpeedSq(p) > REABSORPTION_VELOCITY_THRESHOLD * REABSORPTION_VELOCITY_THRESHOLD)

Reabsorbs(ps, i) ==
    /\ Alive(ps[i])
    /\ ps[i].isEmitted
    /\ ps[i].type # "eye"
    /\ SlowEnough(ps[i])
    /\ NearBody(ps, i)

\* variant of ReabsorbOne: a body particle away from the body detaches by itself
ReabsorbOne_Detach(eng, i) ==
    IF Reabsorbs(eng.particles, i)
    THEN Emit([eng EXCEPT !.particles[i].isEmitted = FALSE], [type |-> "reabsorb"])
    ELSE IF /\ eng.particles[i].type # "eye" /\ ~eng.particles[i].isEmitted
            /\ ~NearBody(eng.particles, i)
         THEN [eng EXCEPT !.particles[i].isEmitted = TRUE]
         ELSE eng

\* one iteration of the loop: for (const p of this.particles)
ReabsorbOne(eng, i) ==
    IF Reabsorbs(eng.particles, i)
    THEN Emit([eng EXCEPT !.particles[i].isEmitted = FALSE], [type |-> "reabsorb"])
    ELSE eng

RECURSIVE ReabsorbFrom(_, _)
ReabsorbFrom(eng, i) ==
    IF i > Len(eng.particles) THEN eng
    ELSE ReabsorbFrom(ReabsorbOne(eng, i), i + 1)

checkReabsorption(eng) == ReabsorbFrom(eng, 1)

\* 5. Boundaries, for one alive particle; r is config.particleRadius
BOUNCE_DEN == 2                     \* bounce = 0.5 = 1 / BOUNCE_DEN

Bounced(v) == (-v) \div BOUNCE_DEN  \* v *= -bounce
Rubbed(v) == (v * 9) \div 10        \* v *= 0.9

\* variant of ResolveBoundaries: the ceiling is open
ResolveBoundaries_NoCeiling(p) ==
    LET r == L(CONFIG_PARTICLE_RADIUS)
        width == L(CANVAS_WIDTH)
        height == L(CANVAS_HEIGHT)
        p1 == IF p.position.y > height - r
              THEN [p EXCEPT !.position.y = height - r,
                             !.velocity.y = Bounced(@),
                             !.velocity.x = Rubbed(@)]
              ELSE p
        p3 == IF p1.position.x > width - r
              THEN [p1 EXCEPT !.position.x = width - r, !.velocity.x = Bounced(@)]
              ELSE p1
    IN  IF p3.position.x < r
        THEN [p3 EXCEPT !.position.x = r, !.velocity.x = Bounced(@)]
        ELSE p3

ResolveBoundaries(p) ==
    LET r == L(CONFIG_PARTICLE_RADIUS)
        width == L(CANVAS_WIDTH)
        height == L(CANVAS_HEIGHT)
        floor == p.position.y > height - r
        p1 == IF floor
              THEN [p EXCEPT !.position.y = height - r,
                             !.velocity.y = Bounced(@),
                             !.velocity.x = Rubbed(@)]
              ELSE p
        p2 == IF p1.position.y < r
              THEN [p1 EXCEPT !.position.y = r, !.velocity.y = Bounced(@)]
              ELSE p1
        p3 == IF p2.position.x > width - r
              THEN [p2 EXCEPT !.position.x = width - r, !.velocity.x = Bounced(@)]
              ELSE p2
    IN  IF p3.position.x < r
        THEN [p3 EXCEPT !.position.x = r, !.velocity.x = Bounced(@)]
        ELSE p3

\* impactSpeed of every alive particle below the floor line
FloorImpacts(ps) ==
    {Abs(ps[i].velocity.y) :
        i \in {j \in DOMAIN ps :
                  /\ Alive(ps[j])
                  /\ ps[j].position.y > L(CANVAS_HEIGHT) - L(CONFIG_PARTICLE_RADIUS)}}

\* maxImpactSpeed; 0 when playedBounceSound stays false
MaxImpactSpeed(ps) ==
    IF FloorImpacts(ps) = {} THEN 0
    ELSE CHOOSE v \in FloorImpacts(ps) : \A w \in FloorImpacts(ps) : w <= v

\* variant of BounceSound: the cooldown does not gate the event
BounceSound_Ungated(eng, maxImpactSpeed) ==
    LET rung == IF maxImpactSpeed > BOUNCE_SOUND_SPEED
                THEN [Emit(eng, [type |-> "bounce",
                                 intensity |-> Min(maxImpactSpeed, BOUNCE_INTENSITY_CEILING)])
                        EXCEPT !.bounceSoundCooldown = BOUNCE_COOLDOWN_TICKS,
                               !.sinceBounce = 0]
                ELSE [eng EXCEPT !.sinceBounce = Min(@ + 1, MaxSinceBounce)]
    IN  [rung EXCEPT !.bounceSoundCooldown = IF @ > 0 THEN @ - 1 ELSE @]

\* the bounce sound and its cooldown, after the loop over the particles; the
\* intensity min(maxImpactSpeed / 300, 1) is held in units of 1/300
BounceSound(eng, maxImpactSpeed) ==
    LET rung == IF maxImpactSpeed > BOUNCE_SOUND_SPEED /\ eng.bounceSoundCooldown <= 0
                THEN [Emit(eng, [type |-> "bounce",
                                 intensity |-> Min(maxImpactSpeed, BOUNCE_INTENSITY_CEILING)])
                        EXCEPT !.bounceSoundCooldown = BOUNCE_COOLDOWN_TICKS,
                               !.sinceBounce = 0]
                ELSE [eng EXCEPT !.sinceBounce = Min(@ + 1, MaxSinceBounce)]
    IN  [rung EXCEPT !.bounceSoundCooldown = IF @ > 0 THEN @ - 1 ELSE @]

Boundaries(eng) ==
    BounceSound(
        [eng EXCEPT !.particles =
            [i \in DOMAIN @ |-> IF Dead(@[i]) THEN @[i] ELSE ResolveBoundaries(@[i])]],
        MaxImpactSpeed(eng.particles))

\* variant of PatrolStep: the index advances by two
PatrolStep_Skips(enemy) ==
    LET target == enemy.patrolPoints[enemy.currentPatrolIndex + 1]
        dx == target.x - enemy.position.x
        dy == target.y - enemy.position.y
        distSq == dx * dx + dy * dy
        dist == ISqrt(distSq)
    IN  IF distSq > L(PATROL_EPSILON) * L(PATROL_EPSILON)
        THEN [enemy EXCEPT
                !.position.x = @ + (dx * enemy.patrolSpeed * L(1)) \div (dist * 60),
                !.position.y = @ + (dy * enemy.patrolSpeed * L(1)) \div (dist * 60)]
        ELSE [enemy EXCEPT
                !.currentPatrolIndex = (@ + 2) % Len(enemy.patrolPoints)]

\* updateEnemies(dt), for one enemy, dt = TIME_STEP = 1/60
PatrolStep(enemy) ==
    LET target == enemy.patrolPoints[enemy.currentPatrolIndex + 1]
        dx == target.x - enemy.position.x
        dy == target.y - enemy.position.y
        distSq == dx * dx + dy * dy
        dist == ISqrt(distSq)
    IN  IF distSq > L(PATROL_EPSILON) * L(PATROL_EPSILON)
        THEN [enemy EXCEPT
                !.position.x = @ + (dx * enemy.patrolSpeed * L(1)) \div (dist * 60),
                !.position.y = @ + (dy * enemy.patrolSpeed * L(1)) \div (dist * 60)]
        ELSE [enemy EXCEPT
                !.currentPatrolIndex = (@ + 1) % Len(enemy.patrolPoints)]

updateEnemies(eng) ==
    IF eng.isGameOver THEN eng
    ELSE [eng EXCEPT !.enemies = [e \in DOMAIN @ |-> PatrolStep(@[e])]]

\* variant of updateEmittedParticles: the latch is not guarded by !isGameOver
updateEmittedParticles_Relatch(eng) ==
    LET kept == SelectSeq(eng.particles, Alive)
        pruned == [eng EXCEPT !.particles = kept]
    IN  IF Len(kept) = 0
        THEN Emit(Notify([pruned EXCEPT !.isGameOver = TRUE,
                                        !.gameOverCalls = Min(@ + 1, MaxGameOverCalls)],
                         [isGameOver |-> TRUE, particleCount |-> 0]),
                  [type |-> "gameOver"])
        ELSE IF ~eng.isGameOver
        THEN Notify(pruned, [isGameOver |-> FALSE, particleCount |-> Len(kept)])
        ELSE pruned

\* variant of updateEmittedParticles: the count is taken before the pruning
updateEmittedParticles_CountsDead(eng) ==
    LET kept == SelectSeq(eng.particles, Alive)
        pruned == [eng EXCEPT !.particles = kept]
    IN  IF Len(kept) = 0 /\ ~eng.isGameOver
        THEN Emit(Notify([pruned EXCEPT !.isGameOver = TRUE,
                                        !.gameOverCalls = Min(@ + 1, MaxGameOverCalls)],
                         [isGameOver |-> TRUE, particleCount |-> 0]),
                  [type |-> "gameOver"])
        ELSE IF ~eng.isGameOver
        THEN Notify(pruned, [isGameOver |-> FALSE, particleCount |-> Len(eng.particles)])
        ELSE pruned

\* updateEmittedParticles(dt): remove the dead, check game over
updateEmittedParticles(eng) ==
    LET kept == SelectSeq(eng.particles, Alive)
        pruned == [eng EXCEPT !.particles = kept]
    IN  IF Len(kept) = 0 /\ ~eng.isGameOver
        THEN Emit(Notify([pruned EXCEPT !.isGameOver = TRUE,
                                        !.gameOverCalls = Min(@ + 1, MaxGameOverCalls)],
                         [isGameOver |-> TRUE, particleCount |-> 0]),
                  [type |-> "gameOver"])
        ELSE IF ~eng.isGameOver
        THEN Notify(pruned, [isGameOver |-> FALSE, particleCount |-> Len(kept)])
        ELSE pruned

\* variant of damageEnemy: the health is not clamped at 0
damageEnemy_NoClamp(eng, e, amount) ==
    LET health == eng.enemies[e].health - amount
        id == eng.enemies[e].id
    IN  Emit([eng EXCEPT !.enemies[e].health = health,
                         !.enemies[e].isDead = IF health <= 0 THEN TRUE ELSE @,
                         !.hits[id] = Min(@ + 1, MaxHits),
                         !.sinceHit[id] = 0],
             [type |-> "enemyHit"])

\* damageEnemy(enemy, amount); e is the index of the enemy
damageEnemy(eng, e, amount) ==
    LET health == Max(0, eng.enemies[e].health - amount)
        id == eng.enemies[e].id
    IN  Emit([eng EXCEPT !.enemies[e].health = health,
                         !.enemies[e].isDead = IF health <= 0 THEN TRUE ELSE @,
                         !.hits[id] = Min(@ + 1, MaxHits),
                         !.sinceHit[id] = 0],
             [type |-> "enemyHit"])

MapSet(m, k, v) == [j \in DOMAIN m \cup {k} |-> IF j = k THEN v ELSE m[j]]
MapGetOr0(m, k) == IF k \in DOMAIN m THEN m[k] ELSE 0

\* AABB test of checkEnemyCollisions
Overlaps(particle, enemy) ==
    LET halfSize == enemy.size \div 2
    IN  /\ particle.position.x + L(PARTICLE_RADIUS) > enemy.position.x - halfSize
        /\ particle.position.x - L(PARTICLE_RADIUS) < enemy.position.x + halfSize
        /\ particle.position.y + L(PARTICLE_RADIUS) > enemy.position.y - halfSize
        /\ particle.position.y - L(PARTICLE_RADIUS) < enemy.position.y + halfSize

Contact(eng, e, i, kind) ==
    [eng EXCEPT !.contacts = Append(@,
        [ enemy |-> eng.enemies[e].id, particle |-> eng.particles[i].id, kind |-> kind,
          enemyWasDead |-> eng.enemies[e].isDead,
          tooSoon |-> eng.sinceHit[eng.enemies[e].id] < HIT_COOLDOWN_TICKS,
          cooling |-> MapGetOr0(eng.enemyHitCooldowns, eng.enemies[e].id) > 0 ])]

\* variant of CollideOne: the body contact waits for the hit cooldown too
CollideOne_BodyGated(eng, e, i, hitCooldown) ==
    LET particle == eng.particles[i]
        enemy == eng.enemies[e]
    IN  IF Dead(particle) THEN eng
        ELSE IF ~Overlaps(particle, enemy) THEN eng
        ELSE IF hitCooldown > 0 THEN Contact(eng, e, i, "blocked")
        ELSE IF particle.isEmitted
        THEN LET logged == Contact(eng, e, i, "hit")
                 damaged == damageEnemy(logged, e, PARTICLE_DAMAGE)
             IN  Emit([damaged EXCEPT
                          !.enemyHitCooldowns = MapSet(@, enemy.id, ENEMY_HIT_COOLDOWN),
                          !.particles[i].health = 0],
                      [type |-> "particleDeath"])
        ELSE Emit([Contact(eng, e, i, "hurt") EXCEPT !.particles[i].health = 0],
                  [type |-> "hurt"])

\* the body of the inner loop: enemy index e, particle index i, and the
\* hitCooldown read before the loop
CollideOne(eng, e, i, hitCooldown) ==
    LET particle == eng.particles[i]
        enemy == eng.enemies[e]
    IN  IF Dead(particle) THEN eng
        ELSE IF ~Overlaps(particle, enemy) THEN eng
        ELSE IF particle.isEmitted
        THEN IF hitCooldown <= 0
             THEN LET logged == Contact(eng, e, i, "hit")
                      damaged == damageEnemy(logged, e, PARTICLE_DAMAGE)
                  IN  Emit([damaged EXCEPT
                               !.enemyHitCooldowns = MapSet(@, enemy.id, ENEMY_HIT_COOLDOWN),
                               !.particles[i].health = 0],
                           [type |-> "particleDeath"])
             ELSE Contact(eng, e, i, "blocked")
        ELSE Emit([Contact(eng, e, i, "hurt") EXCEPT !.particles[i].health = 0],
                  [type |-> "hurt"])

\* a step of a loop or a stage of update() works on the engine as the step
\* before it left it: {Step(done) : done \in {eng}} computes eng once, and
\* Only takes the one outcome
Only(outcomes) == CHOOSE out \in outcomes : TRUE

RECURSIVE CollideParticlesFrom(_, _, _, _)
CollideParticlesFrom(eng, e, i, hitCooldown) ==
    IF i > Len(eng.particles) THEN eng
    ELSE CollideParticlesFrom(
             Only({CollideOne(done, e, i, hitCooldown) : done \in {eng}}),
             e, i + 1, hitCooldown)

\* the body of the outer loop: for (const enemy of this.enemies)
CollideEnemy(eng, e) ==
    IF eng.enemies[e].isDead THEN eng
    ELSE CollideParticlesFrom(eng, e, 1,
                              MapGetOr0(eng.enemyHitCooldowns, eng.enemies[e].id))

RECURSIVE CollideEnemiesFrom(_, _)
CollideEnemiesFrom(eng, e) ==
    IF e > Len(eng.enemies) THEN eng
    ELSE CollideEnemiesFrom(Only({CollideEnemy(done, e) : done \in {eng}}), e + 1)

\* the first loop: cooldown > 0 => cooldown - TIME_STEP
TickCooldowns(m) == [k \in DOMAIN m |-> IF m[k] > 0 THEN m[k] - 1 ELSE m[k]]

\* one more collision pass (one per tick while the game runs) since the last damage
Aged(since) == [e \in DOMAIN since |-> Min(since[e] + 1, ENEMY_HIT_COOLDOWN)]

checkEnemyCollisions(eng) ==
    CollideEnemiesFrom([eng EXCEPT !.enemyHitCooldowns = TickCooldowns(@),
                                   !.sinceHit = Aged(@)], 1)

\* variant of CollisionStage: the pass runs after game-over too
CollisionStage_Always(eng) == checkEnemyCollisions(eng)

\* 7. if (!this.gameState.isGameOver) this.checkEnemyCollisions()
CollisionStage(eng) ==
    IF ~eng.isGameOver THEN checkEnemyCollisions(eng) ELSE eng

\* variant of update: the collision pass runs before the pruning
update_CollideFirst(eng, in, move) ==
    LET controlled == Control(eng, in)
    IN  updateEmittedParticles(
            CollisionStage(
                updateEnemies(
                    Boundaries(
                        checkReabsorption(
                            Integrate(controlled, Kin(controlled.particles, move)))))))

\* update(dt, config, mousePos, isDragging, keyboardInput), dt = TIME_STEP, with
\* a move for what the forces and the integration do
update(eng, in, move) ==
    Only({CollisionStage(pruned) : pruned \in
         {updateEmittedParticles(patrolled) : patrolled \in
          {updateEnemies(bounded) : bounded \in
           {Boundaries(merged) : merged \in
            {checkReabsorption(moved) : moved \in
             {Integrate(controlled, Kin(controlled.particles, move)) : controlled \in
              {Control(eng, in)}}}}}}})

-----------------------------------------------------------------------------
(* Actions: one per public method *)

Install(eng, name) ==
    /\ particles' = eng.particles
    /\ enemies' = eng.enemies
    /\ isGameOver' = eng.isGameOver
    /\ enemyHitCooldowns' = eng.enemyHitCooldowns
    /\ sounds' = eng.sounds
    /\ stateEvents' = eng.stateEvents
    /\ contacts' = eng.contacts
    /\ hits' = eng.hits
    /\ sinceHit' = eng.sinceHit
    /\ gameOverCalls' = eng.gameOverCalls
    /\ jumpCooldown' = eng.jumpCooldown
    /\ jumpWasPressed' = eng.jumpWasPressed
    /\ bounceSoundCooldown' = eng.bounceSoundCooldown
    /\ sinceJump' = eng.sinceJump
    /\ sinceBounce' = eng.sinceBounce
    /\ input' = eng.input
    /\ control' = eng.control
    /\ op' = name
    /\ UNCHANGED <<initialParticleCount, mainGroup>>

UpdateOn(moves, inputs) ==
    \E move \in moves, in \in inputs :
        \E out \in {update(Engine, in, move)} : Install(out, "update")

Update == UpdateOn(CombatMoves, {IdleInput})

LaunchParticle ==
    \/ /\ Launchable(particles) = {}
       /\ Install(Engine, "launchParticle")
    \/ \E i \in Launchable(particles), vel \in LaunchVelocities :
           Install(launchParticle(Engine, i, vel), "launchParticle")

ChargedOn(targets, magnitudes) ==
    \E target \in targets, magnitude \in magnitudes :
        Install(launchChargedParticle(Engine, target, magnitude), "launchChargedParticle")

LaunchChargedParticle == ChargedOn(ChargeTargets, ChargeMagnitudes)

\* variant of initSlime: the new particles are appended to the old ones
initSlime_Merges(eng, count, spawnPos, spawnVel) ==
    [eng EXCEPT !.particles = @ \o SlimeWith(count, spawnPos, spawnVel)]

initSlime(eng, count, spawnPos, spawnVel) ==
    [eng EXCEPT !.particles = SlimeWith(count, spawnPos, spawnVel)]

initEnemies(eng, count, speed) ==
    [eng EXCEPT !.enemies = EnemiesWith(count, speed),
                !.hits = NoHits, !.sinceHit = LongAgo]

\* variant of resetGame: gameState is not replaced
resetGame_KeepsLatch(eng, spawnPos, spawnVel, speed) ==
    LET cleared == [eng EXCEPT !.enemyHitCooldowns = NoCooldowns,
                               !.gameOverCalls = 0]
        fresh == initEnemies(initSlime(cleared, initialParticleCount, spawnPos, spawnVel),
                             ENEMY_COUNT, speed)
    IN  Notify(fresh, [isGameOver |-> FALSE, particleCount |-> Len(fresh.particles)])

resetGame(eng, spawnPos, spawnVel, speed) ==
    LET cleared == [eng EXCEPT !.isGameOver = FALSE,
                               !.enemyHitCooldowns = NoCooldowns,
                               !.gameOverCalls = 0]
        fresh == initEnemies(initSlime(cleared, initialParticleCount, spawnPos, spawnVel),
                             ENEMY_COUNT, speed)
    IN  Notify(fresh, [isGameOver |-> FALSE, particleCount |-> Len(fresh.particles)])

InitSlimeOn(counts) ==
    \E count \in counts, sp \in SpawnPositions, sv \in SpawnVelocities :
        Install(initSlime(Engine, count, sp, sv), "initSlime")

InitSlime == InitSlimeOn(SlimeCounts)

InitEnemies ==
    \E speed \in PatrolSpeeds :
        Install(initEnemies(Engine, ENEMY_COUNT, speed), "initEnemies")

ResetGame ==
    \E sp \in SpawnPositions, sv \in SpawnVelocities, speed \in PatrolSpeeds :
        Install(resetGame(Engine, sp, sv, speed), "resetGame")

Next ==
    \/ Update
    \/ LaunchParticle
    \/ LaunchChargedParticle
    \/ InitSlime
    \/ ResetGame

Spec == Init /\ [][Next]_vars

\* The reabsorption specification: five particles, no particle near an enemy.
ReabUpdate == UpdateOn(ReabMoves, {IdleInput})

NextReab ==
    \/ ReabUpdate
    \/ LaunchParticle
    \/ LaunchChargedParticle

SpecReab == InitWith(ReabCounts) /\ [][NextReab]_vars

\* The control specification: update() under pointer and keyboard input.
ControlUpdate == UpdateOn(ControlMoves, ControlInputs)

NextControl ==
    \/ ControlUpdate
    \/ LaunchChargedParticle

SpecControl == Init /\ [][NextControl]_vars

\* The restart specification: the slime lands, jumps with the jump key, a
\* launched particle falls through the floor line, and resetGame() is called
\* at any moment.
JumpInput == Pointer(<<>>, FALSE, Keys(FALSE, FALSE, TRUE))
Land == [who |-> {0, 1, 2, 3}, to |-> PosG, vel |-> Rest, exact |-> FALSE]
Stay == [who |-> {}, to |-> PosG, vel |-> Rest, exact |-> FALSE]
ResetMoves == {Land} \cup Moves({{2}}, {BelowFloor}, {FallVel})
ResetInputs == {NoInput, JumpInput}

ResetUpdate == UpdateOn(ResetMoves, ResetInputs)

NextReset ==
    \/ ResetUpdate
    \/ ChargedOn({PosUp}, ChargeMagnitudes)
    \/ ResetGame

SpecReset == Init /\ [][NextReset]_vars

\* The boundary specification: the integration leaves particles past the walls.
BoundsUpdate == UpdateOn(BoundsMoves, {IdleInput})

NextBounds ==
    \/ BoundsUpdate
    \/ ChargedOn({PosUp}, ChargeMagnitudes)

SpecBounds == Init /\ [][NextBounds]_vars

\* The force specification: the first tick after construction, computed exactly.
\* the engine with its particles on the force lattice, the last one alive or dead
InitForces ==
    /\ \E n \in ForceCounts :
          \E place \in [1 .. n -> ForceSites], last \in {0, INITIAL_HEALTH} :
              LET still == SlimeAt(n, place,
                                   [i \in 1 .. n |-> IF i = n THEN last ELSE INITIAL_HEALTH])
              IN  /\ WholeLayout(still)
                  /\ particles =
                         [i \in 1 .. n |->
                             [still[i] EXCEPT !.velocity =
                                 Vec(InitialSpeed(Accumulate(still)[i].x),
                                     InitialSpeed(Accumulate(still)[i].y))]]
    /\ initialParticleCount = Len(particles)
    /\ InitCommon

ForceUpdate ==
    /\ op = "constructor"
    /\ \E in \in {NoInput, IdleInput} : Install(update(Engine, in, Computed), "update")

NextForces == ForceUpdate

SpecForces == InitForces /\ [][NextForces]_vars

\* The respawn specification: initSlime with any count from 0 to 5, between
\* launches and updates that carry a particle next to the body.
RespawnCounts == 0 .. 5
RespawnMoves == Moves({{2}, {3}}, {PosC}, {Rest})
RespawnUpdate == UpdateOn(RespawnMoves, {IdleInput})
Respawn == InitSlimeOn(RespawnCounts)

NextRespawn ==
    \/ Respawn
    \/ RespawnUpdate
    \/ ChargedOn({PosUp}, ChargeMagnitudes)

SpecRespawn == Init /\ [][NextRespawn]_vars

\* The tick specification: updates in which several stages act at once.
TickUpdate == UpdateOn(TickMoves, {IdleInput})

NextTick ==
    \/ TickUpdate
    \/ ChargedOn({PosUp}, ChargeMagnitudes)

SpecTick == Init /\ [][NextTick]_vars

\* The patrol specification: enemies on three or four waypoints up to 100 px
\* from their base, under an animation loop that keeps calling update(); the
\* slime stays where it spawned or sits down next to the first enemy's base.
PatrolLayouts == {<<0, 10, 5>>, <<0, 0 - 100, 100>>, <<0 - 60, 40, 0, 90>>}
PatrolMoves == Moves({{}, {0, 1, 2, 3}}, {TickT}, {Rest})

InitPatrol ==
    /\ initialParticleCount \in SlimeCounts
    /\ \E sp \in SpawnPositions, sv \in SpawnVelocities :
           particles = SlimeWith(initialParticleCount, sp, sv)
    /\ \E speed \in PatrolSpeeds, offsets \in PatrolLayouts :
           enemies = EnemiesOn(ENEMY_COUNT, speed, offsets)
    /\ InitRest

PatrolUpdate == UpdateOn(PatrolMoves, {IdleInput})

NextPatrol == PatrolUpdate

SpecPatrol == InitPatrol /\ [][NextPatrol]_vars /\ WF_vars(PatrolUpdate)

\* The connectivity specification: findMainGroup applied to every layout.
FindMainGroup ==
    /\ op # "findMainGroup"
    /\ mainGroup' = findMainGroup(particles, INTERACTION_RADIUS)
    /\ op' = "findMainGroup"
    /\ UNCHANGED <<particles, enemies, isGameOver, enemyHitCooldowns,
                   initialParticleCount, sounds, stateEvents, contacts, hits,
                   sinceHit, gameOverCalls, jumpCooldown, jumpWasPressed,
                   bounceSoundCooldown, sinceJump, sinceBounce, input, control>>

NextGroup == FindMainGroup

SpecGroup == InitGroup /\ [][NextGroup]_vars

-----------------------------------------------------------------------------
(* Properties *)

Count(seq, Test(_)) == Cardinality({k \in DOMAIN seq : Test(seq[k])})
IsGameOverReport(ev) == ev.isGameOver
AliveCount(ps) == Count(ps, Alive)
CombatSound(ev) == ev.type \in {"hurt", "particleDeath", "enemyHit"}
ById(ps, id) == CHOOSE k \in DOMAIN ps : ps[k].id = id
Ids(ps) == {ps[k].id : k \in DOMAIN ps}

\* C1: between construction (or resetGame) and the next resetGame, isGameOver
\* never reverts to false, the game-state callback reports isGameOver=true at
\* most once, and it does so exactly in the update() that empties a non-empty
\* particle collection, as the single report {isGameOver: true, particleCount: 0}.
C1_GameOverLatchedOnce ==
    [][ /\ (isGameOver /\ op' # "resetGame" => isGameOver')
        /\ gameOverCalls' <= 1
        /\ (Count(stateEvents', IsGameOverReport) > 0 =>
                /\ op' = "update"
                /\ ~isGameOver /\ isGameOver'
                /\ Len(particles) > 0 /\ Len(particles') = 0
                /\ stateEvents' = <<[isGameOver |-> TRUE, particleCount |-> 0]>>)
        /\ (op' = "update" /\ Len(particles) > 0 /\ Len(particles') = 0 =>
                Count(stateEvents', IsGameOverReport) = 1)
      ]_vars

\* C1 witness: the state an update() leaves when it has just latched game-over
C1_Witness ==
    /\ op = "update" /\ isGameOver /\ gameOverCalls = 1
    /\ stateEvents = <<[isGameOver |-> TRUE, particleCount |-> 0]>>

\* C2: an update() during which the number of alive particles drops from
\* positive to zero returns with isGameOver = true.
C2_GameOverInSameTick ==
    [][ op' = "update" /\ AliveCount(particles) > 0 /\ AliveCount(particles') = 0
            => isGameOver' ]_vars

\* C3: when update() returns, the collection holds no particle with health <= 0.
C3_NoDeadAfterUpdate ==
    op = "update" => \A k \in DOMAIN particles : Alive(particles[k])

\* C4: with game-over latched, an update() changes no particle health, no enemy
\* health or isDead flag, no hit-cooldown entry, and emits no hurt,
\* particleDeath or enemyHit sound.
C4_NoCollisionWorkAfterGameOver ==
    [][ isGameOver /\ op' = "update" =>
            /\ \A k \in DOMAIN particles' :
                   /\ particles'[k].id \in Ids(particles)
                   /\ particles'[k].health
                        = particles[ById(particles, particles'[k].id)].health
            /\ \A e \in DOMAIN enemies :
                   /\ enemies'[e].health = enemies[e].health
                   /\ enemies'[e].isDead = enemies[e].isDead
            /\ enemyHitCooldowns' = enemyHitCooldowns
            /\ Count(sounds', CombatSound) = 0
            /\ contacts' = <<>>
      ]_vars

\* C4 witness: an update() has run with game-over latched while a particle
\* overlapped an enemy that is not dead and a hit cooldown was still running
C4_Witness ==
    /\ op = "update" /\ isGameOver
    /\ \E k \in DOMAIN particles, e \in DOMAIN enemies :
           Alive(particles[k]) /\ ~enemies[e].isDead /\ Overlaps(particles[k], enemies[e])
    /\ \E id \in DOMAIN enemyHitCooldowns : enemyHitCooldowns[id] > 0

IsHit(c) == c.kind = "hit"
IsHurt(c) == c.kind = "hurt"
IsHurtSound(ev) == ev.type = "hurt"
HitsOn(cs, id) == Cardinality({k \in DOMAIN cs : cs[k].kind = "hit" /\ cs[k].enemy = id})

\* C5: damage to an enemy is cooldown-limited: every damage application to an
\* enemy comes at least the hit cooldown (18 ticks) after the previous one to
\* the same enemy, so never twice in one tick.
C5_HitsSeparatedByCooldown ==
    \A k \in DOMAIN contacts : IsHit(contacts[k]) => ~contacts[k].tooSoon

\* C6: once an enemy's isDead flag is set, no contact with it takes effect,
\* the rest of the collision pass in which it died included: it kills no
\* particle and takes no damage.
C6_DeadEnemyExcluded ==
    \A k \in DOMAIN contacts :
        contacts[k].kind \in {"hit", "hurt"} => ~contacts[k].enemyWasDead

\* C7: in a collision pass every alive non-emitted particle whose box overlaps
\* the hit-box of an enemy that was not dead when the pass began has its health
\* set to 0, whatever the enemy's hit cooldown, with one hurt sound for it; and
\* such contacts leave the enemy alone: its health drops only by the damage of
\* the emitted hits, and its cooldown entry only ticks unless an emitted hit
\* resets it.
C7_BodyContactLethal ==
    [][ op' = "update" /\ ~isGameOver' =>
            /\ \A k \in DOMAIN particles', e \in DOMAIN enemies' :
                   ( /\ ~particles'[k].isEmitted
                     /\ ~enemies[e].isDead
                     /\ Overlaps(particles'[k], enemies'[e]) )
                   => /\ particles'[k].health = 0
                      /\ \E c \in DOMAIN contacts' :
                             /\ IsHurt(contacts'[c])
                             /\ contacts'[c].particle = particles'[k].id
            /\ Count(sounds', IsHurtSound) = Count(contacts', IsHurt)
            /\ \A e \in DOMAIN enemies' :
                   LET id == enemies'[e].id
                       n == HitsOn(contacts', id)
                   IN  /\ enemies'[e].health = Max(0, enemies[e].health - 15 * n)
                       /\ n = 0 => /\ id \in DOMAIN enemyHitCooldowns'
                                        <=> id \in DOMAIN enemyHitCooldowns
                                   /\ id \in DOMAIN enemyHitCooldowns =>
                                        enemyHitCooldowns'[id]
                                          = Max(0, enemyHitCooldowns[id] - 1)
      ]_vars

\* C7 witness: a non-emitted particle was killed by an enemy whose hit cooldown
\* was still running
C7_Witness ==
    /\ op = "update"
    /\ \E k \in DOMAIN contacts : IsHurt(contacts[k]) /\ contacts[k].tooSoon

\* C8: an enemy of health 50 hit for 15 per hit has health 35, 20, 5, 0 after
\* hits 1 to 4, is dead from the 4th hit on and not before, and keeps health 0
\* whatever overlaps it afterwards.
C8_EnemyHealthLadder ==
    \A e \in DOMAIN enemies :
        LET n == hits[enemies[e].id]
        IN  /\ enemies[e].health = <<50, 35, 20, 5, 0>>[Min(n, 4) + 1]
            /\ enemies[e].isDead <=> n >= 4

\* C8 witness: after an update() an alive emitted particle overlaps an enemy
\* that four hits have killed
C8_Witness ==
    /\ op = "update"
    /\ \E e \in DOMAIN enemies, k \in DOMAIN particles :
           /\ enemies[e].isDead /\ hits[enemies[e].id] = 4
           /\ particles[k].isEmitted /\ Alive(particles[k])
           /\ Overlaps(particles[k], enemies[e])

\* C9: a dead enemy is inert: an update() leaves its isDead flag set, keeps it
\* in the collection and changes neither its position nor its currentPatrolIndex.
C9_DeadEnemyInert ==
    [][ op' = "update" =>
            /\ Len(enemies') = Len(enemies)
            /\ \A e \in DOMAIN enemies :
                   enemies[e].isDead =>
                       /\ enemies'[e].isDead
                       /\ enemies'[e].position = enemies[e].position
                       /\ enemies'[e].currentPatrolIndex = enemies[e].currentPatrolIndex
      ]_vars

-----------------------------------------------------------------------------
(* The reabsorption stage, observed between integration and the boundaries *)

\* the stage is observed on every move of either specification
AllMoves == ReabMoves \cup CombatMoves
StageIn(move) ==
    LET controlled == Control(Engine, IdleInput)
    IN  Integrate(controlled, Kin(controlled.particles, move))
StageOut(move) == checkReabsorption(StageIn(move))

IsReabsorbSound(ev) == ev.type = "reabsorb"
Candidate(p) == p.isEmitted /\ p.health > 0 /\ p.type # "eye"
Within(p, q) ==
    DistSq(p.position, q.position)
        < L(REABSORPTION_DISTANCE_THRESHOLD) * L(REABSORPTION_DISTANCE_THRESHOLD)
Demoted(in, out) == {i \in DOMAIN in : in[i].isEmitted /\ ~out[i].isEmitted}

\* the anchors of particle i among the particles that are non-emitted when
\* the stage starts
AnchoredAtStart(in, i) ==
    \E j \in DOMAIN in :
        /\ j # i /\ in[j].health > 0 /\ in[j].type # "eye"
        /\ ~in[j].isEmitted
        /\ Within(in[i], in[j])

\* the anchors of particle i among the particles that are non-emitted when
\* particle i is examined: an earlier particle counts with the flag the stage
\* has left it, a later one with the flag it started with
AnchoredWhenExamined(in, out, i) ==
    \E j \in DOMAIN in :
        /\ j # i /\ in[j].health > 0 /\ in[j].type # "eye"
        /\ (IF j < i THEN ~out[j].isEmitted ELSE ~in[j].isEmitted)
        /\ Within(in[i], in[j])

\* what every reading of the stage agrees on: only the isEmitted flag of
\* candidates changes, and there is one reabsorb sound per demoted particle
StageFrame(in, after) ==
    /\ Len(after.particles) = Len(in)
    /\ \A i \in DOMAIN in :
           /\ after.particles[i] = [in[i] EXCEPT !.isEmitted = after.particles[i].isEmitted]
           /\ (~Candidate(in[i]) => after.particles[i].isEmitted = in[i].isEmitted)
    /\ Len(after.sounds) = Cardinality(Demoted(in, after.particles))
    /\ \A k \in DOMAIN after.sounds : IsReabsorbSound(after.sounds[k])

\* C10 as stated: in the reabsorption stage an emitted, alive, non-eye
\* particle becomes non-emitted, with one reabsorb sound, iff its speed is
\* below 50 and it lies within 35 of another alive, non-emitted, non-eye
\* particle; every other isEmitted flag is unchanged.
C10_Original ==
    \A move \in AllMoves :
        LET in == StageIn(move).particles
            after == StageOut(move)
        IN  /\ StageFrame(in, after)
            /\ \A i \in DOMAIN in :
                   Candidate(in[i]) =>
                       (~after.particles[i].isEmitted <=>
                            /\ SpeedSq(in[i]) < REABSORPTION_VELOCITY_THRESHOLD
                                                   * REABSORPTION_VELOCITY_THRESHOLD
                            /\ AnchoredAtStart(in, i))

\* C10 (amended): in the reabsorption stage an emitted, alive, non-eye
\* particle becomes non-emitted, with one reabsorb sound, iff its speed is
\* not above 50 and it lies less than 35 from another alive non-eye particle
\* that is non-emitted when the particle is examined (non-emitted at the start
\* of the stage, or earlier in the particle order and reabsorbed earlier in
\* the same stage); every other isEmitted flag is unchanged.
C10_Reabsorption ==
    \A move \in AllMoves :
        LET in == StageIn(move).particles
            after == StageOut(move)
        IN  /\ StageFrame(in, after)
            /\ \A i \in DOMAIN in :
                   Candidate(in[i]) =>
                       (~after.particles[i].isEmitted <=>
                            /\ SpeedSq(in[i]) <= REABSORPTION_VELOCITY_THRESHOLD
                                                    * REABSORPTION_VELOCITY_THRESHOLD
                            /\ AnchoredWhenExamined(in, after.particles, i))

\* C10 witness: an update() has reabsorbed two particles in one pass, the
\* second of them anchored only by the first, and one of them at speed 50
C10_Witness ==
    /\ op = "update"
    /\ Count(sounds, IsReabsorbSound) = 2
    /\ \E i \in DOMAIN particles :
           /\ particles[i].type # "eye" /\ ~particles[i].isEmitted
           /\ SpeedSq(particles[i]) = REABSORPTION_VELOCITY_THRESHOLD
                                         * REABSORPTION_VELOCITY_THRESHOLD
           /\ particles[i].position = PosD

-----------------------------------------------------------------------------
(* The emit / reabsorb lifecycle *)

IsLaunch(name) == name \in {"launchParticle", "launchChargedParticle"}
IsReinit(name) == name \in {"initSlime", "resetGame"}
Eyes(ps) == {k \in DOMAIN ps : ps[k].type = "eye"}
IsLaunchSound(ev) == ev.type = "launch"

\* C11: a particle's isEmitted flag goes from false to true only inside
\* launchParticle or launchChargedParticle, and from true to false only inside
\* the reabsorption stage of update() (with a reabsorb sound): a reabsorbed
\* particle stays non-emitted over any number of update() calls until a launch
\* selects it.
C11_NoRetoggleWithoutLaunch ==
    [][ ~IsReinit(op') =>
            \A id \in Ids(particles) \cap Ids(particles') :
                LET before == particles[ById(particles, id)]
                    after == particles'[ById(particles', id)]
                IN  /\ (~before.isEmitted /\ after.isEmitted => IsLaunch(op'))
                    /\ (before.isEmitted /\ ~after.isEmitted =>
                            /\ op' = "update"
                            /\ Count(sounds', IsReabsorbSound) >= 1)
      ]_vars

\* C11 witness: an update() without any reabsorption has left non-emitted a
\* body particle that an earlier update() had reabsorbed (it still has the
\* velocity it flew in with)
C11_Witness ==
    /\ op = "update"
    /\ Count(sounds, IsReabsorbSound) = 0
    /\ \E i \in DOMAIN particles :
           /\ particles[i].type # "eye" /\ ~particles[i].isEmitted
           /\ particles[i].velocity = EdgeVel

\* C12: in every reachable state every eye has isEmitted = false.
C12_EyesNeverEmitted ==
    \A i \in Eyes(particles) : ~particles[i].isEmitted

\* C12 witness: a launch found every body particle emitted already, and the
\* two eyes are still not emitted
C12_Witness ==
    /\ IsLaunch(op)
    /\ Cardinality(Eyes(particles)) = 2
    /\ \A i \in DOMAIN particles : particles[i].isEmitted <=> particles[i].type # "eye"
    /\ Len(particles) > 2
    /\ sounds = <<>>

\* C13: over update and launch calls (no re-initialization) the collection
\* holds exactly two eyes and no particle changes its role.
C13_TwoEyesForever ==
    [][ ~IsReinit(op') =>
            /\ (Cardinality(Eyes(particles)) = 2 => Cardinality(Eyes(particles')) = 2)
            /\ \A id \in Ids(particles) \cap Ids(particles') :
                   particles'[ById(particles', id)].type = particles[ById(particles, id)].type
      ]_vars

\* C14: with no eligible particle launchParticle() and launchChargedParticle()
\* change no particle, no enemy and no game-state field, and emit no event.
C14_LaunchNoOp ==
    [][ IsLaunch(op') /\ Launchable(particles) = {} =>
            /\ particles' = particles
            /\ enemies' = enemies
            /\ isGameOver' = isGameOver
            /\ enemyHitCooldowns' = enemyHitCooldowns
            /\ initialParticleCount' = initialParticleCount
            /\ sounds' = <<>>
            /\ stateEvents' = <<>>
      ]_vars

\* C14 witness: a charged launch was called on the empty collection that
\* game-over leaves
C14_Witness ==
    /\ op = "launchChargedParticle"
    /\ particles = <<>>
    /\ isGameOver

\* C15: launchChargedParticle with an eligible particle selects the
\* non-emitted non-eye particle with the greatest y (the first in index order
\* on ties), sets it emitted with health = maxHealth = 100, and leaves the
\* isEmitted flag and the health of every other particle unchanged.
C15_ChargedSelection ==
    [][ op' = "launchChargedParticle" /\ Launchable(particles) # {} =>
            /\ Len(particles') = Len(particles)
            /\ \E sel \in Launchable(particles) :
                   /\ \A j \in Launchable(particles) :
                          \/ particles[j].position.y < particles[sel].position.y
                          \/ (particles[j].position.y = particles[sel].position.y /\ sel <= j)
                   /\ particles'[sel].isEmitted
                   /\ particles'[sel].health = PARTICLE_MAX_HEALTH
                   /\ particles'[sel].maxHealth = PARTICLE_MAX_HEALTH
                   /\ \A k \in DOMAIN particles :
                          k # sel =>
                              /\ particles'[k].isEmitted = particles[k].isEmitted
                              /\ particles'[k].health = particles[k].health
      ]_vars

\* C15 witness: a charged launch has taken the lower body particle although
\* a higher one with a smaller index was eligible
C15_Witness ==
    /\ op = "launchChargedParticle"
    /\ \E i, k \in DOMAIN particles :
           /\ i < k
           /\ particles[i].type # "eye" /\ ~particles[i].isEmitted
           /\ particles[k].type # "eye" /\ particles[k].isEmitted
           /\ particles[k].position.y > particles[i].position.y
           /\ particles[k].position = PosC

\* C16: every charged launch that launches a particle emits exactly one launch
\* sound, of intensity min(speedMagnitude / 1200, 1), for every target point,
\* a target less than 1 from the launched particle included.
C16_LaunchSoundAlways ==
    [][ op' = "launchChargedParticle" /\ Launchable(particles) # {} =>
            \E magnitude \in ChargeMagnitudes :
                sounds' = <<[type |-> "launch",
                             intensity |-> Min(magnitude, LAUNCH_INTENSITY_CEILING)]>>
      ]_vars

-----------------------------------------------------------------------------
(* Connectivity *)

Linked(ps, i, j) ==
    /\ i # j /\ ps[i].health > 0 /\ ps[j].health > 0
    /\ DistSq(ps[i].position, ps[j].position)
           < L(INTERACTION_RADIUS) * L(INTERACTION_RADIUS)

\* the connected component of the set S, by closure
RECURSIVE Grow(_, _)
Grow(ps, S) ==
    LET T == S \cup {j \in DOMAIN ps : \E i \in S : Linked(ps, i, j)}
    IN  IF T = S THEN S ELSE Grow(ps, T)

Components(ps) == {Grow(ps, {i}) : i \in {k \in DOMAIN ps : ps[k].health > 0}}
Lowest(S) == CHOOSE x \in S : \A y \in S : x <= y

\* C17: findMainGroup returns the index set of the largest connected component
\* of the alive particles under "distance < interaction radius", among several
\* largest ones the one with the lowest particle index, the empty set when no
\* particle is alive; a dead particle is never a member.
C17_MainGroupIsLargestComponent ==
    op = "findMainGroup" =>
        /\ \A i \in mainGroup : i \in DOMAIN particles /\ particles[i].health > 0
        /\ (Components(particles) = {} => mainGroup = {})
        /\ (Components(particles) # {} =>
                /\ mainGroup \in Components(particles)
                /\ \A D \in Components(particles) :
                       \/ Cardinality(D) < Cardinality(mainGroup)
                       \/ /\ Cardinality(D) = Cardinality(mainGroup)
                          /\ Lowest(mainGroup) <= Lowest(D))

\* C17 witness: of two disjoint clusters of sizes 3 and 7, the smaller one
\* holding the lowest index, findMainGroup has returned the 7 members
C17_Witness ==
    /\ op = "findMainGroup"
    /\ Len(particles) = 10
    /\ Cardinality(mainGroup) = 7
    /\ 1 \notin mainGroup
    /\ Cardinality(Components(particles)) = 2

-----------------------------------------------------------------------------
(* Pointer and keyboard control *)

IsJumpSound(ev) == ev.type = "jump"
MainGroupNow == findMainGroup(particles, INTERACTION_RADIUS)
\* the particles as stages 3 and 3.5 of the update() being taken leave them
Steered == Control(Engine, input').particles

\* C18: in an update() a particle outside the main group found at the start
\* of the tick gets no pointer pull, no 0.8 damping, no locomotion force and
\* no jump velocity; an emitted particle gets no locomotion force and no jump
\* velocity even inside the main group.
C18_InputOnlyOnMainGroup ==
    [][ op' = "update" =>
            LET group == MainGroupNow
                steered == Steered
            IN  \A i \in DOMAIN particles :
                    /\ (i \notin group =>
                            /\ i \notin control'.dragged
                            /\ i \notin control'.pushed
                            /\ i \notin control'.jumped
                            /\ steered[i] = particles[i])
                    /\ (particles[i].isEmitted =>
                            /\ i \notin control'.pushed
                            /\ i \notin control'.jumped
                            /\ steered[i] = particles[i])
      ]_vars

\* C18 witness: an update() has dragged, pushed and jumped the main group
\* while an alive non-emitted particle outside it, and an emitted one, got
\* nothing
C18_Witness ==
    /\ op = "update"
    /\ control.dragged # {} /\ control.pushed # {} /\ control.jumped # {}
    /\ \E i \in DOMAIN particles :
           /\ particles[i].health > 0 /\ ~particles[i].isEmitted
           /\ i \notin control.dragged \cup control.pushed \cup control.jumped

\* C19: in an update() with a keyboard state a jump fires iff jump is pressed
\* now and was not pressed in the previous update() with a keyboard state,
\* some non-emitted main-group particle has y >= height - particleRadius - 8,
\* and the jump cooldown is <= 0.  When it fires every non-emitted main-group
\* particle gets vertical velocity -350, the cooldown is set to 0.25 s (and
\* steps down once in the same update) and one jump sound is emitted; when it
\* does not, no velocity is overridden.
C19_JumpOnRisingEdge ==
    [][ op' = "update" /\ input'.keyboardInput # <<>> =>
            LET keys == input'.keyboardInput[1]
                eligible == {i \in MainGroupNow : ~particles[i].isEmitted}
                grounded == \E i \in eligible :
                               particles[i].position.y
                                   >= L(CANVAS_HEIGHT) - L(CONFIG_PARTICLE_RADIUS) - L(8)
                fires == /\ keys.jump /\ ~jumpWasPressed
                         /\ grounded /\ jumpCooldown <= 0
                steered == Steered
            IN  /\ jumpWasPressed' = keys.jump
                /\ Count(sounds', IsJumpSound) = (IF fires THEN 1 ELSE 0)
                /\ (fires =>
                        /\ control'.jumped = eligible
                        /\ \A i \in eligible : steered[i].velocity.y = -350
                        /\ \A i \in DOMAIN particles \ eligible : steered[i] = particles[i]
                        /\ jumpCooldown' = JUMP_COOLDOWN_TICKS - 1)
                /\ (~fires =>
                        /\ control'.jumped = {}
                        /\ steered = particles
                        /\ jumpCooldown' = IF jumpCooldown > 0 THEN jumpCooldown - 1
                                            ELSE jumpCooldown)
      ]_vars

\* C19 witness: an update() has fired a jump
C19_Witness ==
    /\ op = "update"
    /\ Count(sounds, IsJumpSound) = 1
    /\ control.jumped # {}
    /\ jumpWasPressed
    /\ jumpCooldown = JUMP_COOLDOWN_TICKS - 1

\* C20: an update() without a keyboard state applies no locomotion force and
\* no jump velocity, emits no jump sound, and leaves the jump cooldown and the
\* remembered jump-key state unchanged.
C20_NoKeyboardNoControl ==
    [][ op' = "update" /\ input'.keyboardInput = <<>> =>
            /\ control'.pushed = {}
            /\ control'.jumped = {}
            /\ Steered = particles
            /\ Count(sounds', IsJumpSound) = 0
            /\ jumpCooldown' = jumpCooldown
            /\ jumpWasPressed' = jumpWasPressed
      ]_vars

\* C20 witness: an update() without a keyboard state has run while the jump
\* cooldown was running and the jump key was remembered as pressed
C20_Witness ==
    /\ op = "update"
    /\ input.keyboardInput = <<>>
    /\ jumpCooldown > 0
    /\ jumpWasPressed

InsideWalls(p) ==
    /\ L(CONFIG_PARTICLE_RADIUS) <= p.position.x
    /\ p.position.x <= L(CANVAS_WIDTH) - L(CONFIG_PARTICLE_RADIUS)
    /\ L(CONFIG_PARTICLE_RADIUS) <= p.position.y
    /\ p.position.y <= L(CANVAS_HEIGHT) - L(CONFIG_PARTICLE_RADIUS)

\* C21: after any update() every alive particle lies within
\* [particleRadius, width - particleRadius] x [particleRadius, height - particleRadius],
\* wherever the integration had put it.
C21_AliveInsideWalls ==
    op = "update" =>
        \A i \in DOMAIN particles : Alive(particles[i]) => InsideWalls(particles[i])

\* an emitted particle that fell through the floor at 200 px/s sits on the floor
\* line with its vertical velocity halved and reversed, and the bounce rang
C21_Witness ==
    /\ op = "update"
    /\ \E i \in DOMAIN particles :
           /\ Alive(particles[i])
           /\ particles[i].position.y = L(CANVAS_HEIGHT) - L(CONFIG_PARTICLE_RADIUS)
           /\ particles[i].velocity = Vec(-90, -100)
    /\ \E k \in DOMAIN sounds : sounds[k].type = "bounce"

RECURSIVE NetPairForce(_, _, _)
NetPairForce(ps, force, i) ==
    IF i > Len(ps) THEN Vec(0, 0)
    ELSE LET rest == NetPairForce(ps, force, i + 1)
         IN  IF Alive(ps[i])
             THEN Vec(rest.x + force[i].x, rest.y + force[i].y - GRAVITY)
             ELSE rest

\* C22: the pairwise forces are applied as equal-and-opposite pairs: over two
\* particles alone each one's force less gravity is the negation of the other's,
\* and over the whole collection the sum over the alive particles of
\* (force - mass * gravity) is the zero vector.
C22_PairForcesCancel ==
    /\ NetPairForce(particles, Accumulate(particles), 1) = Vec(0, 0)
    /\ \A i, j \in DOMAIN particles :
           (i < j /\ Alive(particles[i]) /\ Alive(particles[j])) =>
               LET force == Accumulate(<<particles[i], particles[j]>>)
               IN  /\ force[1].x = 0 - force[2].x
                   /\ force[1].y - GRAVITY = 0 - (force[2].y - GRAVITY)

\* a tick has run over a body particle pulled down by 60 and another pulled up
\* by 60
C22_Witness ==
    /\ op = "update"
    /\ \E i, j \in DOMAIN particles :
           /\ Accumulate(particles)[i] = Vec(0, GRAVITY + 60)
           /\ Accumulate(particles)[j] = Vec(0, GRAVITY - 60)
           /\ particles[i].type = "body" /\ particles[j].type = "body"

\* the particle of collection ps with identifier id leaves the tick with the
\* vertical velocity (vy + f * dt) * damping
LeavesWith(ps, id, vy, f) ==
    \E j \in DOMAIN ps :
        /\ ps[j].id = id
        /\ ps[j].velocity.y * DAMPING_DEN * TICKS_PER_SECOND
              = (TICKS_PER_SECOND * vy + f) * DAMPING_NUM

\* C25 as stated: after the first update with gravity = 400, dt = 1/60, no drag
\* and no keyboard input, every non-eye particle's vertical velocity equals
\* (previous vertical velocity + 400 * (1/60)) * damping.
C25_Original ==
    [][op' = "update" =>
          \A i \in DOMAIN particles :
              (Alive(particles[i]) /\ particles[i].type # "eye") =>
                  LeavesWith(particles', particles[i].id, particles[i].velocity.y, GRAVITY)]_vars

\* C25, amended: after that update every alive non-eye particle's vertical
\* velocity equals (previous vertical velocity + force.y * (1/60)) * damping,
\* where force.y is 400 plus the vertical components of the pairwise forces
\* on the particle; it is the stated value for the particles on which those
\* components add up to zero.
C25_VerticalVelocity ==
    [][op' = "update" =>
          \A i \in DOMAIN particles :
              (Alive(particles[i]) /\ particles[i].type # "eye") =>
                  LeavesWith(particles', particles[i].id, particles[i].velocity.y,
                             Accumulate(particles)[i].y)]_vars

\* the tick has run over a body particle that a neighbour 30 px below pulls
\* down by 60: it left with 16 px/s, from 9 px/s
C25_Witness ==
    /\ op = "update"
    /\ \E i \in DOMAIN particles :
           /\ particles[i].type = "body"
           /\ Accumulate(particles)[i] = Vec(0, GRAVITY + 60)
           /\ particles[i].velocity.y = 16

\* C23: from any state, game-over included, resetGame() leaves isGameOver false,
\* the hit-cooldown map empty, exactly the construction-time number of
\* particles, all alive and non-emitted, and fresh enemies, none dead and all at
\* full health; it reports {isGameOver: false, particleCount: that number}; and
\* an update() that then empties the collection latches and reports game-over.
C23_ResetRestores ==
    [][ /\ (op' = "resetGame" =>
                /\ ~isGameOver'
                /\ enemyHitCooldowns' = NoCooldowns
                /\ Len(particles') = initialParticleCount
                /\ \A i \in DOMAIN particles' :
                       Alive(particles'[i]) /\ ~particles'[i].isEmitted
                /\ Len(enemies') = ENEMY_COUNT
                /\ \A e \in DOMAIN enemies' :
                       ~enemies'[e].isDead /\ enemies'[e].health = ENEMY_MAX_HEALTH
                /\ stateEvents' = <<[isGameOver |-> FALSE,
                                     particleCount |-> initialParticleCount]>>
                /\ gameOverCalls' = 0)
        /\ (op' = "update" /\ ~isGameOver /\ Len(particles) > 0 /\ Len(particles') = 0 =>
                /\ isGameOver'
                /\ stateEvents' = <<[isGameOver |-> TRUE, particleCount |-> 0]>>)
      ]_vars

\* resetGame() has just run: the slime is whole again and the report was made
C23_Witness ==
    /\ op = "resetGame"
    /\ ~isGameOver
    /\ Len(particles) = initialParticleCount
    /\ stateEvents = <<[isGameOver |-> FALSE, particleCount |-> initialParticleCount]>>

Structure(ps) ==
    [i \in DOMAIN ps |->
        [id |-> ps[i].id, type |-> ps[i].type, isEmitted |-> ps[i].isEmitted,
         health |-> ps[i].health]]

\* C24: initSlime(count) replaces the collection: afterwards there are exactly
\* count particles with ids 0 .. count - 1, particles 0 and 1 are eyes and the
\* others body, all non-emitted with health 100, whatever the collection held
\* before; a second call with the same count gives the same structure.
C24_InitSlimeReplaces ==
    \A count \in RespawnCounts, sp \in SpawnPositions, sv \in SpawnVelocities :
        LET once == initSlime(Engine, count, sp, sv).particles
            twice == initSlime(initSlime(Engine, count, sp, sv), count, sp, sv).particles
        IN  /\ Len(once) = count
            /\ \A i \in DOMAIN once :
                   /\ once[i].id = i - 1
                   /\ once[i].type = IF i <= 2 THEN "eye" ELSE "body"
                   /\ ~once[i].isEmitted
                   /\ once[i].health = 100
            /\ Structure(twice) = Structure(once)

\* initSlime(3) has just run: three particles, two of them eyes
C24_Witness ==
    /\ op = "initSlime"
    /\ Len(particles) = 3
    /\ Structure(particles) =
           <<[id |-> 0, type |-> "eye", isEmitted |-> FALSE, health |-> 100],
             [id |-> 1, type |-> "eye", isEmitted |-> FALSE, health |-> 100],
             [id |-> 2, type |-> "body", isEmitted |-> FALSE, health |-> 100]>>

\* the stage of update() that emits a sound event
StageOf(ev) ==
    IF ev.type = "jump" THEN 3
    ELSE IF ev.type = "reabsorb" THEN 4
    ELSE IF ev.type = "bounce" THEN 5
    ELSE IF ev.type = "gameOver" THEN 6
    ELSE 7

InStageOrder(evs) == \A k, l \in DOMAIN evs : k < l => StageOf(evs[k]) <= StageOf(evs[l])

Killed(out, id) ==
    \E c \in DOMAIN out.contacts :
        out.contacts[c].particle = id /\ out.contacts[c].kind \in {"hit", "hurt"}

\* what one update() shows of the order of its stages, from the engine before
\* (the variables) to the engine after (out)
TickInOrder(in, move, out) ==
    /\ InStageOrder(out.sounds)
    \* main-group detection comes first: input acts on the group of the start
    /\ (out.control.dragged \cup out.control.pushed \cup out.control.jumped)
           \subseteq findMainGroup(particles, INTERACTION_RADIUS)
    \* reabsorption sees the velocity of the integration, not of the bounce
    /\ \A k \in DOMAIN out.particles :
           (/\ out.particles[k].id \in move.who
            /\ \E i \in DOMAIN particles :
                   /\ particles[i].id = out.particles[k].id
                   /\ Alive(particles[i]) /\ particles[i].isEmitted
            /\ SpeedSq([velocity |-> move.vel])
                  > REABSORPTION_VELOCITY_THRESHOLD * REABSORPTION_VELOCITY_THRESHOLD)
               => out.particles[k].isEmitted
    \* the patrol runs before the latch and before the collision pass
    /\ ~isGameOver =>
           \A e \in DOMAIN enemies :
               /\ out.enemies[e].position = PatrolStep(enemies[e]).position
               /\ out.enemies[e].currentPatrolIndex = PatrolStep(enemies[e]).currentPatrolIndex
    /\ \A c \in DOMAIN out.contacts :
           \E k \in DOMAIN out.particles, e \in DOMAIN out.enemies :
               /\ out.particles[k].id = out.contacts[c].particle
               /\ out.enemies[e].id = out.contacts[c].enemy
               /\ Overlaps(out.particles[k], out.enemies[e])
    \* the pruning runs before the collision pass
    /\ \A i \in DOMAIN particles :
           Dead(particles[i]) => particles[i].id \notin Ids(out.particles)
    /\ \A k \in DOMAIN out.particles :
           Dead(out.particles[k]) => Killed(out, out.particles[k].id)
    \* and the pass is skipped in the tick that latches game-over
    /\ (~isGameOver /\ out.isGameOver) =>
           /\ out.contacts = <<>>
           /\ Count(out.sounds, CombatSound) = 0
           /\ out.stateEvents = <<[isGameOver |-> TRUE, particleCount |-> 0]>>

\* C26: within every update() the stages run in the order main-group detection,
\* forces, pointer and keyboard input, integration, reabsorption, boundaries,
\* enemy patrol, pruning with the game-over check, collision pass; so the
\* collision pass runs after that tick's pruning and not at all in the tick
\* that latches game-over.
C26_StagesInOrder ==
    \A in \in {IdleInput, FullInput(TickT)}, move \in TickMoves :
        TickInOrder(in, move, update(Engine, in, move))

\* a tick in which the reabsorption stage and then the collision pass acted: an
\* emitted particle was reabsorbed by the body that the enemy then killed
C26_Witness ==
    /\ op = "update"
    /\ sounds = <<[type |-> "reabsorb"], [type |-> "hurt"]>>
    /\ \E k \in DOMAIN particles : Dead(particles[k])

\* the moves under which a dead particle is looked at: those of the tick
\* specification and a slow arrival next to the enemy
LingerMoves == TickMoves \cup Moves({{2}}, {TickX}, {Rest})

AliveOnly(ps) == SelectSeq(ps, Alive)

EmittedIds(ps) == {ps[k].id : k \in {j \in DOMAIN ps : Alive(ps[j]) /\ ps[j].isEmitted}}

\* the engine after each stage of one update(), up to the boundaries
StagesOf(in, move) ==
    LET controlled == Control(Engine, in)
        integrated == Integrate(controlled, Kin(controlled.particles, move))
        reabsorbed == checkReabsorption(integrated)
    IN  [ controlled |-> controlled, integrated |-> integrated,
          reabsorbed |-> reabsorbed, bounded |-> Boundaries(reabsorbed),
          out |-> update(Engine, in, move) ]

\* C28: a dead particle that is in the collection when update() starts is not
\* modified by input, jump, integration, reabsorption or boundary resolution,
\* never serves as a reabsorption anchor, and is removed by the pruning stage.
C28_DeadParticleFrame ==
    \A in \in {IdleInput, FullInput(TickT)}, move \in LingerMoves :
        LET st == StagesOf(in, move)
        IN  /\ \A i \in DOMAIN particles :
                   Dead(particles[i]) =>
                       /\ st.controlled.particles[i] = particles[i]
                       /\ i \notin st.controlled.control.dragged
                       /\ i \notin st.controlled.control.pushed
                       /\ i \notin st.controlled.control.jumped
                       /\ st.integrated.particles[i] = particles[i]
                       /\ st.reabsorbed.particles[i] = particles[i]
                       /\ st.bounded.particles[i] = particles[i]
                       /\ particles[i].id \notin Ids(st.out.particles)
            /\ EmittedIds(st.reabsorbed.particles)
                   = EmittedIds(checkReabsorption(
                         [st.integrated EXCEPT !.particles = AliveOnly(@)]).particles)

\* an update() has left a dead, non-emitted body particle in the collection,
\* and under a move of the next update an alive emitted particle comes to rest
\* within the reabsorption distance of it, with no alive anchor in reach
C28_Witness ==
    /\ op = "update"
    /\ \E d \in DOMAIN particles, move \in LingerMoves :
           LET ps == StagesOf(IdleInput, move).integrated.particles
           IN  /\ Dead(particles[d]) /\ particles[d].type = "body" /\ ~particles[d].isEmitted
               /\ \E i \in DOMAIN ps :
                      /\ Alive(ps[i]) /\ ps[i].isEmitted /\ SlowEnough(ps[i])
                      /\ DistSq(ps[i].position, ps[d].position)
                            < L(REABSORPTION_DISTANCE_THRESHOLD)
                                  * L(REABSORPTION_DISTANCE_THRESHOLD)
                      /\ ~NearBody(ps, i)

IsParticleDeathSound(ev) == ev.type = "particleDeath"
IsEnemyHitSound(ev) == ev.type = "enemyHit"

\* C27: contact between an emitted particle and an enemy is mutually damaging:
\* in a collision pass there are as many particleDeath as enemyHit events, and
\* an emitted particle that overlaps an enemy whose hit cooldown has not
\* elapsed is left alive and leaves the enemy undamaged.
C27_MutualDamage ==
    op = "update" =>
        /\ Count(sounds, IsParticleDeathSound) = Count(sounds, IsEnemyHitSound)
        /\ \A c \in DOMAIN contacts :
               (contacts[c].kind \in {"hit", "blocked"} /\ contacts[c].cooling) =>
                   /\ contacts[c].kind = "blocked"
                   /\ \E k \in DOMAIN particles :
                          /\ particles[k].id = contacts[c].particle
                          /\ Alive(particles[k])

\* C29: two jumps are separated by the jump cooldown: after a jump has fired in
\* one update() no jump fires in any of the next 14 updates that carry a
\* keyboard state, whatever the keys do.
C29_JumpsSeparated ==
    [][(op' = "update" /\ Count(sounds', IsJumpSound) > 0) => sinceJump >= 14]_vars

\* a jump has just fired: the counter is back at 0 and the cooldown runs
C29_Witness ==
    /\ op = "update"
    /\ Count(sounds, IsJumpSound) = 1
    /\ sinceJump = 0
    /\ jumpCooldown = JUMP_COOLDOWN_TICKS - 1
    /\ input.keyboardInput # <<>> /\ input.keyboardInput[1].jump

WithinEpsilon(enemy) ==
    DistSq(enemy.position, enemy.patrolPoints[enemy.currentPatrolIndex + 1])
        <= L(PATROL_EPSILON) * L(PATROL_EPSILON)

PatrolIndexStep ==
    ~isGameOver =>
        \A e \in DOMAIN enemies :
            /\ enemies'[e].currentPatrolIndex \in 0 .. Len(enemies'[e].patrolPoints) - 1
            /\ enemies'[e].currentPatrolIndex # enemies[e].currentPatrolIndex =>
                   /\ op' = "update"
                   /\ enemies'[e].currentPatrolIndex
                         = (enemies[e].currentPatrolIndex + 1) % Len(enemies[e].patrolPoints)
                   /\ WithinEpsilon(enemies[e])
                   /\ enemies'[e].position = enemies[e].position

\* enemy e stands at its waypoint k, if it has one, or the game is over
Visits(e, k) ==
    \/ isGameOver
    \/ k >= Len(enemies[e].patrolPoints)
    \/ enemies[e].currentPatrolIndex = k /\ WithinEpsilon(enemies[e])

AgainAndAgain(e) ==
    /\ []<>Visits(e, 0)
    /\ []<>Visits(e, 1)
    /\ []<>Visits(e, 2)
    /\ []<>Visits(e, 3)

\* C30: while game-over is not latched each enemy's currentPatrolIndex is a
\* valid index, changes only by advancing to (index + 1) modulo the number of
\* waypoints in an update() in which the enemy is within 5 px of the current
\* waypoint and does not move, and under repeated updates every waypoint
\* becomes the current one, and is reached, again and again.
C30_PatrolCycles ==
    /\ [][PatrolIndexStep]_vars
    /\ AgainAndAgain(1)
    /\ AgainAndAgain(2)

\* an enemy on four waypoints has come round: it stands within 5 px of its
\* last waypoint, 90 px from its base, with the index on that waypoint
C30_Witness ==
    /\ op = "update" /\ ~isGameOver
    /\ \E e \in DOMAIN enemies :
           /\ Len(enemies[e].patrolPoints) = 4
           /\ enemies[e].currentPatrolIndex = 3
           /\ WithinEpsilon(enemies[e])

\* the particles of the collection that the collision pass of this update() killed
KilledByPass(ps, cs) ==
    {k \in DOMAIN ps :
        \E c \in DOMAIN cs : cs[c].particle = ps[k].id /\ cs[c].kind \in {"hit", "hurt"}}

\* C31: an update() that neither starts with game-over latched nor latches it
\* calls the game-state callback exactly once, with isGameOver = false and
\* particleCount = the length of the collection after the pruning, all of
\* whose particles are alive at that moment (a dead one in the collection
\* after the update() was killed by the collision pass that follows the
\* callback); an update() that starts with game-over latched does not call it.
C31_StateReports ==
    [][op' = "update" =>
          /\ (~isGameOver /\ ~isGameOver') =>
                 /\ stateEvents' = <<[isGameOver |-> FALSE,
                                      particleCount |-> Len(particles')]>>
                 /\ \A k \in DOMAIN particles' :
                        Alive(particles'[k]) \/ k \in KilledByPass(particles', contacts')
          /\ isGameOver => stateEvents' = <<>>]_vars

\* an update() has pruned a dead particle and reported the ones that were
\* left, one of which the collision pass then killed
C31_Witness ==
    /\ op = "update" /\ ~isGameOver
    /\ Len(particles) < initialParticleCount
    /\ stateEvents = <<[isGameOver |-> FALSE, particleCount |-> Len(particles)]>>
    /\ AliveCount(particles) < Len(particles)

IsBounceSound(ev) == ev.type = "bounce"

\* what the integration may leave of a particle when the boundaries stage
\* starts: below the floor line or in mid-air, slow, falling, fast or rising,
\* alive or dead
BounceDrops ==
    [position : {BelowFloor, PosB},
     velocity : {EdgeVel, FallVel, FastVel, Vec(0, 0 - 40)},
     health   : {100, 0}]

\* the engine at the start of stage 5, its last two particles left as a and b
Landing(a, b) ==
    [Engine EXCEPT !.particles =
        [i \in DOMAIN @ |->
            IF i = Len(@)
            THEN [@[i] EXCEPT !.position = a.position, !.velocity = a.velocity,
                              !.health = a.health]
            ELSE IF i = Len(@) - 1
            THEN [@[i] EXCEPT !.position = b.position, !.velocity = b.velocity,
                              !.health = b.health]
            ELSE @[i]]]

\* the alive particles below the floor line
Crossing(ps) ==
    {i \in DOMAIN ps :
        Alive(ps[i]) /\ ps[i].position.y > L(CANVAS_HEIGHT) - L(CONFIG_PARTICLE_RADIUS)}

\* stage 5 from the engine pre to the engine out
BounceRule(pre, out) ==
    LET bounces == SelectSeq(out.sounds, IsBounceSound)
    IN  /\ Len(bounces) <= 1
        /\ Len(bounces) = 1 =>
               /\ pre.bounceSoundCooldown <= 0
               /\ \E i \in Crossing(pre.particles) :
                      /\ Abs(pre.particles[i].velocity.y) > 50
                      /\ \A j \in Crossing(pre.particles) :
                             Abs(pre.particles[j].velocity.y)
                                 <= Abs(pre.particles[i].velocity.y)
                      /\ bounces[1].intensity
                             = Min(Abs(pre.particles[i].velocity.y), 300)

\* C32: bounce events are rate-limited.  Whatever the integration leaves of
\* the last two particles, the boundaries stage emits at most one bounce
\* event, and only with the bounce cooldown <= 0 and an alive particle below
\* the floor line with impact speed > 50, its intensity min(speed / 300, 1)
\* (in units of 1/300) taken from the largest impact speed of the alive
\* particles below the floor line; an update() emits at most one bounce
\* event, and none in the 5 update() calls that follow one with a bounce event.
C32_BounceRateLimited ==
    /\ [](\A a, b \in BounceDrops : BounceRule(Landing(a, b), Boundaries(Landing(a, b))))
    /\ [][/\ Count(sounds', IsBounceSound) <= 1
          /\ (op' = "update" /\ Count(sounds', IsBounceSound) > 0) =>
                 bounceSoundCooldown <= 0 /\ sinceBounce >= 5]_vars

\* an update() has just emitted a bounce event for an impact at 200 px/s: the
\* counter is back at 0 and the cooldown runs
C32_Witness ==
    /\ op = "update"
    /\ SelectSeq(sounds, IsBounceSound) = <<[type |-> "bounce", intensity |-> 200]>>
    /\ sinceBounce = 0
    /\ bounceSoundCooldown = BOUNCE_COOLDOWN_TICKS - 1

\* the engine the constructor builds when initSlime and initEnemies draw what
\* the last resetGame() drew: the fields at their initial values
Constructed ==
    [Engine EXCEPT !.isGameOver = FALSE,
                   !.enemyHitCooldowns = NoCooldowns,
                   !.jumpCooldown = 0,
                   !.jumpWasPressed = FALSE,
                   !.bounceSoundCooldown = 0]

\* the sound events of an update() with the jump key down that follows an
\* update() without keyboard state in which the slime has come to the ground
LandThenJump(eng) ==
    LET landed == update(eng, NoInput, Land)
    IN  update([landed EXCEPT !.sounds = <<>>, !.stateEvents = <<>>, !.contacts = <<>>],
               JumpInput, Stay).sounds

\* C33: after resetGame() every field that influences later behaviour has the
\* value it has after construction (game-over flag, hit cooldowns, jump
\* cooldown, remembered jump key, bounce-sound cooldown, a fresh slime and
\* fresh enemies), so the same inputs produce the same events as on a freshly
\* constructed engine.
C33_ResetIsFresh ==
    op = "resetGame" =>
        /\ ~isGameOver
        /\ enemyHitCooldowns = NoCooldowns
        /\ \E sp \in SpawnPositions, sv \in SpawnVelocities, speed \in PatrolSpeeds :
               /\ particles = SlimeWith(initialParticleCount, sp, sv)
               /\ enemies = EnemiesWith(ENEMY_COUNT, speed)
        /\ jumpCooldown = 0
        /\ ~jumpWasPressed
        /\ bounceSoundCooldown = 0
        /\ LandThenJump(Engine) = LandThenJump(Constructed)

====
